---- MODULE Spec2Model ----
(***************************************************************************)
(* State-machine model of the URL shortener's creation / deduplication /   *)
(* resolution pipeline: URLService (internal/url/service/url_service.go)   *)
(* over PostgresRepository (internal/url/repository/postgres.go, table and  *)
(* indexes of scripts/migrations/url_service.sql) and RedisCache           *)
(* (internal/url/cache/redis.go).  Beside it, each under a specification   *)
(* of its own: DefaultValidator.Validate (pkg/validator), the entity that  *)
(* attemptCreateURL builds from a request, and the counters of             *)
(* InMemoryMetrics under concurrent CreateURL calls.                       *)
(*                                                                         *)
(* Every store call, cache call and detached goroutine step is one atomic  *)
(* action; the workers (request goroutines) interleave freely between      *)
(* them.  Time is a counter of ticks; expires_at and the cache deadlines   *)
(* are tick values.                                                        *)
(***************************************************************************)
EXTENDS Integers, Sequences, FiniteSets, Bags, TLC

\* ------------------------------------------------------------------ bounds
NumWorkers == 2
NumUsers == 2
NumCodes == 2
MaxTime == 2
\* the workload of one run: how many requests of each kind arrive
MaxCreates == 3
MaxGets == 3
MaxRedirects == 2
MaxDeletes == 1
\* the largest |ExpiresIn| of a request, where the entity built is examined
MaxExpiresIn == 2
\* how long a detached goroutine is watched, in seconds
MaxWait == 12
MaxRequestedLength == 14   \* the lengths asked of NewBase62GeneratorWithLength
MaxClock == 3              \* the readings of the wall clock, in milliseconds
MaxCalls == 4              \* the calls of SnowflakeGenerator.Generate
SequenceValues == 2        \* the values of the sequence field, 4096 in the code

\* ------------------------------------------------------- program constants
\* createNewURLWithRetry: maxRetries := 5
maxCreateAttempts == 5
\* generateUniqueShortCode: maxRetries := 10
maxProbes == 10
\* cache TTLs, in ticks (one tick stands for the response TTL of 5 minutes;
\* the 24h default outlasts the modelled horizon)
responseTTL == 1
\* the timeout of the goroutine of GetURLAndIncrementClick, in seconds
clickTimeout == 10
defaultTTL == 3

Workers == 1..NumWorkers
Users == 1..NumUsers
\* the URLs entities are made for, and one more that clients may send
URLs == {"u1"}
BadURLs == {"u0"}
Codes == 1..NumCodes
\* CreateURLRequest.ExpiresIn values: 0 (absent or zero: no expiry), 1 tick
ExpiresIns == {0, 1}

VARIABLES
    store,        \* table urls: sequence of rows, id = index, in created_at order
    ecache,       \* entity cache   "url:<code>"      : Codes -> entry
    rcache,       \* response cache "response:<key>"  : key -> entry
    now,          \* wall clock, in ticks
    pc,           \* per worker: position in the handler it runs
    loc,          \* per worker: request, locals, result
    tasks,        \* bag of detached goroutines (click recording, soft delete)
    quota,        \* environment: requests still to arrive, senders, Redis faults
    hSucc,        \* history: key -> code of the last successful CreateURL return
    hDeleted,     \* history: code -> DeleteURL(code) has returned success
    hLastRead,    \* history: code -> click count of the last GetURL return (-1: none)
    hServed,      \* history: code -> number of redirects served and returned
    events,       \* event sink: how many events of each topic were published,
                  \* and how many publications failed
    metrics,      \* InMemoryMetrics and the goroutines inside IncrementCounter
    fn            \* a function under test: its input and its result

vars == <<store, ecache, rcache, now, pc, loc, tasks, quota,
          hSucc, hDeleted, hLastRead, hServed, events, metrics, fn>>

\* the URL service proper, and what stands beside it
core == <<store, ecache, rcache, now, pc, loc, tasks, quota,
          hSucc, hDeleted, hLastRead, hServed, events>>

\* ------------------------------------------------------------ data shapes
NoEnt == [code |-> 0, url |-> "", user |-> 0, expires |-> 0, clicks |-> 0,
          active |-> FALSE]
NoCached == [code |-> 0, url |-> "", user |-> 0, expires |-> 0, clicks |-> 0,
             active |-> FALSE, until |-> 0]
\* the text fmt.Sprintf("%s/%s", base, code) makes, by its pieces
NoShortURL == [base |-> "", sep |-> "", code |-> 0]
NoResp == [code |-> 0, short |-> NoShortURL, url |-> "", expires |-> 0, clicks |-> 0]
NoRespCached == [code |-> 0, short |-> NoShortURL, url |-> "", expires |-> 0,
                 clicks |-> 0, until |-> 0]
NoRes == [st |-> "none", resp |-> NoResp, err |-> ""]

Keys == (URLs \cup BadURLs) \X Users

NoEvents == [created |-> 0, clicked |-> 0, dropped |-> 0]
\* the counters CreateURL increments: on entry, and for its outcome
RequestsTotal == "url_create_requests_total"
OutcomeCounters == {"url_duplicates_prevented_total", "url_create_new_total"}
CounterNames == {RequestsTotal} \cup OutcomeCounters

\* InMemoryMetrics outside the metrics specification: not looked at
NoMetrics == [counters |-> <<>>]
NoFn == [op |-> ""]

\* domain.URL as read from a row (the columns the service selects)
EntOf(row) == [code |-> row.code, url |-> row.url, user |-> row.user,
               expires |-> row.expires, clicks |-> row.clicks,
               active |-> row.active]

\* a variant of the key that leaves the owner out
GenerateResponseCacheKeyOfURL(u, o) == <<u, 1>>

\* GenerateResponseCacheKey: md5 of "<url>:<user>", taken as injective
GenerateResponseCacheKey(u, o) == <<u, o>>

\* Config.BaseURL
baseURL == "base"

\* buildURLResponse
buildURLResponse(e) == [code |-> e.code,
                        short |-> [base |-> baseURL, sep |-> "/", code |-> e.code],
                        url |-> e.url, expires |-> e.expires,
                        clicks |-> e.clicks]

\* url.ExpiresAt != nil && url.ExpiresAt.Before(time.Now())
Expired(e, t) == e.expires # 0 /\ e.expires < t

Max(S) == CHOOSE x \in S : \A y \in S : y <= x
Min(S) == CHOOSE x \in S : \A y \in S : x <= y

\* -------------------------------------------------------------- validator
\* Raw URLs are strings, modelled as sequences of characters.
Letters == {"a", "b", "c", "e", "f", "h", "i", "l", "m", "n", "o", "p", "r",
            "s", "t", "u", "x", "y",
            "B", "H", "I", "L", "P", "S", "T", "Y"}
Digits == {"0", "8"}

\* strings.ToLower, one character
ToLowerChar(c) ==
    CASE c = "B" -> "b" [] c = "H" -> "h" [] c = "I" -> "i" [] c = "L" -> "l"
      [] c = "P" -> "p" [] c = "S" -> "s" [] c = "T" -> "t" [] c = "Y" -> "y"
      [] OTHER -> c

ToLower(s) == [i \in 1..Len(s) |-> ToLowerChar(s[i])]

Tail0(s, i) == SubSeq(s, i, Len(s))

HasPrefix(s, p) == Len(s) >= Len(p) /\ SubSeq(s, 1, Len(p)) = p

HasSuffix(s, p) == Len(s) >= Len(p) /\ Tail0(s, Len(s) - Len(p) + 1) = p

\* strings.Contains
Contains(s, sub) ==
    \E i \in 1..(Len(s) - Len(sub) + 1) : SubSeq(s, i, i + Len(sub) - 1) = sub

\* strings.Index / strings.LastIndex of one character, 1-based, 0 when absent
Index(s, c) ==
    IF \E i \in 1..Len(s) : s[i] = c
    THEN Min({i \in 1..Len(s) : s[i] = c}) ELSE 0

LastIndex(s, c) ==
    IF \E i \in 1..Len(s) : s[i] = c
    THEN Max({i \in 1..Len(s) : s[i] = c}) ELSE 0

\* net/url getScheme: letters go on; a digit, "+", "-" or "." in first place,
\* or any other character, means there is no scheme; ":" ends the scheme and
\* is an error in first place
RECURSIVE getScheme(_, _)
getScheme(s, i) ==
    IF i > Len(s) THEN [scheme |-> <<>>, rest |-> s, err |-> FALSE]
    ELSE IF s[i] \in Letters THEN getScheme(s, i + 1)
    ELSE IF s[i] \in Digits \cup {"+", "-", "."}
         THEN IF i = 1 THEN [scheme |-> <<>>, rest |-> s, err |-> FALSE]
              ELSE getScheme(s, i + 1)
    ELSE IF s[i] = ":"
         THEN IF i = 1 THEN [scheme |-> <<>>, rest |-> <<>>, err |-> TRUE]
              ELSE [scheme |-> SubSeq(s, 1, i - 1), rest |-> Tail0(s, i + 1),
                    err |-> FALSE]
    ELSE [scheme |-> <<>>, rest |-> s, err |-> FALSE]

\* net/url validOptionalPort: "" or ":" followed by digits
validOptionalPort(p) ==
    p = <<>> \/ (p[1] = ":" /\ \A i \in 2..Len(p) : p[i] \in Digits)

\* net/url parseHost, for hosts without "[", "%" and "@": the text after the
\* last ":" must be a port
parseHostFails(h) ==
    LET i == LastIndex(h, ":")
    IN  i # 0 /\ ~validOptionalPort(Tail0(h, i))

\* net/url Parse, for texts without "?", "#", "@", "[", "%" and control
\* characters: the scheme (lower-cased), then the authority between "//" and
\* the next "/"
Parse(raw) ==
    LET g == getScheme(raw, 1)
        scheme == ToLower(g.scheme)
        rest == g.rest
        NoHost == [scheme |-> scheme, host |-> <<>>, err |-> FALSE]
        Failed == [scheme |-> <<>>, host |-> <<>>, err |-> TRUE]
    IN  IF g.err THEN Failed
        ELSE IF ~HasPrefix(rest, <<"/">>) /\ scheme # <<>> THEN NoHost
        ELSE IF ~HasPrefix(rest, <<"/">>)
                /\ LET i == Index(rest, "/")
                       segment == IF i = 0 THEN rest ELSE SubSeq(rest, 1, i - 1)
                   IN  Contains(segment, <<":">>)
             THEN Failed
        ELSE IF (scheme # <<>> \/ ~HasPrefix(rest, <<"/", "/", "/">>))
                /\ HasPrefix(rest, <<"/", "/">>)
             THEN LET a == Tail0(rest, 3)
                      i == Index(a, "/")
                      authority == IF i = 0 THEN a ELSE SubSeq(a, 1, i - 1)
                  IN  IF parseHostFails(authority) THEN Failed
                      ELSE [scheme |-> scheme, host |-> authority, err |-> FALSE]
        ELSE NoHost

http == <<"h", "t", "t", "p">>
https == <<"h", "t", "t", "p", "s">>

\* NewDefaultValidator: blacklistedDomains
blacklistedDomains ==
    { <<"b", "i", "t", ".", "l", "y">>,
      <<"t", "i", "n", "y", "u", "r", "l", ".", "c", "o", "m">> }

ValidateAnything(rawURL) == "ok"

\* DefaultValidator.Validate: "ok" or the check that refused the URL
Validate(rawURL) ==
    IF rawURL = <<>> THEN "empty"
    ELSE LET u == Parse(rawURL)
         IN  IF u.err THEN "format"
             ELSE IF u.scheme # http /\ u.scheme # https THEN "scheme"
             ELSE IF u.host = <<>> THEN "host"
             ELSE IF \E domain \in blacklistedDomains : Contains(u.host, domain)
                  THEN "blacklisted"
             ELSE "ok"

\* DefaultValidator.IsSafe: every URL is reported safe
IsSafe(rawURL) == TRUE

\* The bounded set of raw URLs: a scheme part, a separator, a host part and
\* a path, each possibly empty
SchemeParts ==
    { <<>>, http, https, <<"H", "T", "T", "P", "S">>, <<"f", "t", "p">> }
Separators == { <<>>, <<":">>, <<":", "/", "/">> }
HostParts ==
    { <<>>, <<"x">>,
      <<"e", "x", "a", "m", "p", "l", "e", ".", "c", "o", "m">>,
      <<"b", "i", "t", ".", "l", "y">>,
      <<"t", "i", "n", "y", "u", "r", "l", ".", "c", "o", "m">>,
      <<"B", "I", "T", ".", "L", "Y">>,
      <<"a", ".", "b", "i", "t", ".", "l", "y">>,
      <<"r", "a", "b", "b", "i", "t", ".", "l", "y">>,
      <<"b", "i", "t", ".", "l", "y", ":", "8", "0">>,
      <<"x", ":", "x">> }
PathParts ==
    { <<>>, <<"/", "x">>, <<"/", "p", "a", "t", "h">>,
      <<"/", "b", "i", "t", ".", "l", "y">> }
RawURLs ==
    { s \o p \o h \o q :
        s \in SchemeParts, p \in Separators, h \in HostParts, q \in PathParts }

\* the text of each URL
Raw(u) ==
    IF u \in BadURLs THEN <<"f", "t", "p", ":", "/", "/", "x">>
    ELSE https \o <<":", "/", "/">>
         \o <<"e", "x", "a", "m", "p", "l", "e", ".", "c", "o", "m">>
         \o <<"/", "p", "a", "t", "h">>

\* fmt.Sprintf("%d", n)
DigitText(d) ==
    CASE d = 0 -> "0" [] d = 1 -> "1" [] d = 2 -> "2" [] d = 3 -> "3"
      [] d = 4 -> "4" [] d = 5 -> "5" [] d = 6 -> "6" [] d = 7 -> "7"
      [] d = 8 -> "8" [] OTHER -> "9"

RECURSIVE Decimal(_)
Decimal(n) ==
    IF n < 0 THEN <<"-">> \o Decimal(0 - n)
    ELSE IF n < 10 THEN <<DigitText(n)>>
    ELSE Decimal(n \div 10) \o <<DigitText(n % 10)>>

\* the text GenerateResponseCacheKey hashes: fmt.Sprintf("%s:%d", url, user)
ResponseKeyData(raw, o) == raw \o <<":">> \o Decimal(o)

\* ------------------------------------------------------------- repository
\* SELECT ... WHERE original_url = $1 AND user_id = $2 AND deleted_at IS NULL
\* ORDER BY created_at DESC LIMIT 1, then the expiration check in the
\* application: an expired row is reported absent and a detached SoftDelete
\* of its short code is started.
GetByOriginalURLAndUser(st, u, o, t) ==
    LET m == {i \in DOMAIN st : st[i].url = u /\ st[i].user = o /\ ~st[i].deleted}
    IN  IF m = {} THEN [ent |-> NoEnt, sweep |-> 0]
        ELSE LET r == st[Max(m)]
             IN  IF Expired(r, t) THEN [ent |-> NoEnt, sweep |-> r.code]
                 ELSE [ent |-> EntOf(r), sweep |-> 0]

\* SELECT ... WHERE short_code = $1 AND is_active = true, then the
\* expiration check
GetByShortCode(st, c, t) ==
    LET m == {i \in DOMAIN st : st[i].code = c /\ st[i].active}
    IN  IF m = {} THEN NoEnt
        ELSE LET r == st[Min(m)]
             IN  IF Expired(r, t) THEN NoEnt ELSE EntOf(r)

\* the table without the constraint on short_code
ShortCodeNeverTaken(st, c) == FALSE

\* a table whose constraint covers the active rows only
ShortCodeTakenByActive(st, c) == \E i \in DOMAIN st : st[i].code = c /\ st[i].active

\* short_code VARCHAR(10) UNIQUE: constraint urls_short_code_key
ShortCodeTaken(st, c) == \E i \in DOMAIN st : st[i].code = c

\* the table without the index on (user_id, original_url)
UserURLNeverTaken(st, u, o) == FALSE

\* CREATE UNIQUE INDEX idx_urls_user_url_not_deleted
\*   ON urls (user_id, original_url) WHERE deleted_at IS NULL
UserURLTaken(st, u, o) ==
    \E i \in DOMAIN st : st[i].url = u /\ st[i].user = o /\ ~st[i].deleted

\* The outcomes of INSERT INTO urls: "ok", or the unique violation Postgres
\* reports.  When both indexes are violated either may be the one reported.
InsertOutcomes(st, row) ==
    LET byCode == ShortCodeTaken(st, row.code)
        byPair == UserURLTaken(st, row.url, row.user)
    IN  IF ~byCode /\ ~byPair THEN {"ok"}
        ELSE (IF byCode THEN {"urls_short_code_key"} ELSE {})
             \cup (IF byPair THEN {"idx_urls_user_url_not_deleted"} ELSE {})

\* isDuplicateShortCodeError: the message names the short-code constraint
AnyUniqueViolation(outcome) == TRUE

isDuplicateShortCodeError(outcome) == outcome = "urls_short_code_key"

\* UPDATE urls SET deleted_at = NOW() WHERE short_code = $1 AND deleted_at IS NULL
SoftDelete(st, c) ==
    [i \in DOMAIN st |->
        IF st[i].code = c /\ ~st[i].deleted
        THEN [st[i] EXCEPT !.deleted = TRUE] ELSE st[i]]

\* a variant that applies the increment twice
IncrementClickCountTwice(st, c) ==
    [i \in DOMAIN st |->
        IF st[i].code = c /\ st[i].active
        THEN [st[i] EXCEPT !.clicks = @ + 2] ELSE st[i]]

\* UPDATE urls SET click_count = click_count + 1
\*   WHERE short_code = $1 AND is_active = true
IncrementClickCount(st, c) ==
    [i \in DOMAIN st |->
        IF st[i].code = c /\ st[i].active
        THEN [st[i] EXCEPT !.clicks = @ + 1] ELSE st[i]]

\* UPDATE urls SET user_id = $1, expires_at = $2, metadata = $3
\*   WHERE short_code = $4 AND is_active = true
Update(st, e) ==
    [i \in DOMAIN st |->
        IF st[i].code = e.code /\ st[i].active
        THEN [st[i] EXCEPT !.user = e.user, !.expires = e.expires] ELSE st[i]]

\* a variant that writes the row anew
DeleteResetting(st, c) ==
    [i \in DOMAIN st |->
        IF st[i].code = c THEN [st[i] EXCEPT !.active = FALSE, !.clicks = 0]
        ELSE st[i]]

\* UPDATE urls SET is_active = false WHERE short_code = $1
Delete(st, c) ==
    [i \in DOMAIN st |->
        IF st[i].code = c THEN [st[i] EXCEPT !.active = FALSE] ELSE st[i]]

\* rows affected by Delete
DeleteRows(st, c) == {i \in DOMAIN st : st[i].code = c}

\* ------------------------------------------------------------------ cache
\* outcomes of one Redis call
CacheOutcomes == IF quota.faulty THEN {"ok", "fail"} ELSE {"ok"}

\* what a call of outcome out adds to the errors logged
Logged(out) == IF out = "ok" THEN 0 ELSE 1

\* outcomes of one EventPublisher.publish call
PublishOutcomes == IF quota.lossy THEN {"ok", "fail"} ELSE {"ok"}

\* the event sink after a publication of outcome out to a topic
Published(ev, topic, out) ==
    IF out = "ok" THEN [ev EXCEPT ![topic] = @ + 1]
    ELSE [ev EXCEPT !.dropped = @ + 1]

\* RedisCache.Set: ttl = defaultTTL, or time.Until(expires_at) clamped at 0;
\* client.Set with ttl 0 stores the key without expiration (until = 0).
SetTTL(e, t) ==
    IF e.expires = 0 THEN defaultTTL
    ELSE IF e.expires - t < 0 THEN 0 ELSE e.expires - t

Set(ec, e, t) ==
    LET ttl == SetTTL(e, t)
    IN  [ec EXCEPT ![e.code] =
            [code |-> e.code, url |-> e.url, user |-> e.user,
             expires |-> e.expires, clicks |-> e.clicks, active |-> e.active,
             until |-> IF ttl = 0 THEN 0 ELSE t + ttl]]

\* a variant whose key does not tell the short codes apart
GetAnyKey(ec, c) ==
    IF \A d \in Codes : ec[d].code = 0 THEN NoEnt
    ELSE LET d == CHOOSE x \in Codes : ec[x].code # 0
         IN  [code |-> ec[d].code, url |-> ec[d].url, user |-> ec[d].user,
              expires |-> ec[d].expires, clicks |-> ec[d].clicks,
              active |-> ec[d].active]

\* RedisCache.Get: the entity stored under the short code, if any
Get(ec, c) ==
    IF ec[c].code = 0 THEN NoEnt
    ELSE [code |-> ec[c].code, url |-> ec[c].url, user |-> ec[c].user,
          expires |-> ec[c].expires, clicks |-> ec[c].clicks,
          active |-> ec[c].active]

\* a variant that leaves the key in place
CacheDeleteKept(ec, c) == ec

\* RedisCache.Delete
CacheDelete(ec, c) == [ec EXCEPT ![c] = NoCached]

\* a variant that drops the write
SetResponseDropped(rc, key, resp, ttl, t) == rc

\* RedisCache.SetResponse
SetResponse(rc, key, resp, ttl, t) ==
    LET d == IF ttl <= 0 THEN responseTTL ELSE ttl
    IN  [rc EXCEPT ![key] =
            [code |-> resp.code, short |-> resp.short, url |-> resp.url,
             expires |-> resp.expires, clicks |-> resp.clicks, until |-> t + d]]

\* RedisCache.GetResponse
GetResponse(rc, key) ==
    IF rc[key].code = 0 THEN NoResp
    ELSE [code |-> rc[key].code, short |-> rc[key].short, url |-> rc[key].url,
          expires |-> rc[key].expires, clicks |-> rc[key].clicks]

\* Redis drops a key when its time to live has run out
Unexpired(entry, t) == entry.until = 0 \/ t < entry.until


\* ------------------------------------------------------- liveness of rows
\* An entity is live iff it is active, not soft-deleted and not expired.
Live(r, t) == r.active /\ ~r.deleted /\ ~Expired(r, t)

KeyOf(r) == <<r.url, r.user>>

LiveRows(st, k, t) == {i \in DOMAIN st : KeyOf(st[i]) = k /\ Live(st[i], t)}

\* ------------------------------------------------------- worker locals
InitLoc == [op |-> "", url |-> "", user |-> 0, exp |-> 0, code |-> 0,
            ent |-> NoEnt, attempt |-> 0, created |-> 0, res |-> NoRes,
            \* history fields, read by the properties only: what held when
            \* the call started
            prev |-> 0, clean |-> TRUE, fresh |-> FALSE, liveAt |-> 0,
            delAt |-> {}, expAt |-> FALSE, floor |-> -1, goneAt |-> FALSE,
            lapsed |-> FALSE,
            \* history fields: what the call has done so far
            hit |-> NoResp, validated |-> FALSE,
            gens |-> 0, persists |-> 0, lastErr |-> "", lookups |-> 0,
            cwrites |-> 0,
            \* history field: entity-cache errors the call has logged
            elog |-> 0]

OkRes(resp) == [st |-> "ok", resp |-> resp, err |-> ""]
ErrRes(e) == [st |-> "err", resp |-> NoResp, err |-> e]
NotFound == [st |-> "notfound", resp |-> NoResp, err |-> ""]

\* A request is served by a fresh goroutine; the goroutines are anonymous, so
\* a new request takes the lowest idle worker slot.
Accepts(w, kind) ==
    /\ pc[w] = "idle"
    /\ \A v \in Workers : v < w => pc[v] # "idle"
    /\ quota[kind] > 0
    /\ quota' = [quota EXCEPT ![kind] = @ - 1]

\* history: the workers creating for a key of K lose their "in succession"
\* mark when an entity of that key is deleted or expires
Forget(l, K) ==
    [w \in Workers |->
        IF <<l[w].url, l[w].user>> \in K
        THEN [l[w] EXCEPT !.prev = 0, !.clean = FALSE] ELSE l[w]]

ForgetSucc(h, K) == [k \in Keys |-> IF k \in K THEN 0 ELSE h[k]]

\* --------------------------------------------------------------- Init
\* The workloads covered. Each fixes how many requests of each kind arrive,
\* how many users send them, for which URLs, whether Redis calls may fail
\* (faulty) and whether publications to Kafka may fail (lossy):
\*   creations by several users, with Redis failures;
\*   a longer burst of creations by one user;
\*   one creation, one read and a deletion, with Redis and Kafka failures;
\*   reads, redirects and a deletion of what an earlier creation has left;
\*   a redirect through each of GetURLAndIncrementClick and RedirectURL and
\*   a deletion, with Redis and Kafka failures.
Workloads ==
    { [create |-> MaxCreates - 1, get |-> 0, redirect |-> 0, redirectURL |-> 0, delete |-> 0,
       users |-> NumUsers, urls |-> URLs, faulty |-> TRUE, lossy |-> FALSE],
      [create |-> MaxCreates, get |-> 0, redirect |-> 0, redirectURL |-> 0, delete |-> 0,
       users |-> 1, urls |-> URLs, faulty |-> FALSE, lossy |-> FALSE],
      [create |-> 1, get |-> 1, redirect |-> 0, redirectURL |-> 0, delete |-> MaxDeletes,
       users |-> 1, urls |-> URLs \cup BadURLs, faulty |-> TRUE, lossy |-> TRUE],
      [create |-> 0, get |-> MaxGets, redirect |-> MaxRedirects, redirectURL |-> 0,
       delete |-> MaxDeletes, users |-> 1, urls |-> URLs, faulty |-> FALSE,
       lossy |-> FALSE],
      [create |-> 0, get |-> 0, redirect |-> 1, redirectURL |-> 1,
       delete |-> MaxDeletes, users |-> 1, urls |-> URLs, faulty |-> TRUE,
       lossy |-> TRUE] }

\* The service starts over the database earlier runs have left: no row, or
\* one row made by an earlier CreateURL (and possibly DeleteURL).
InitStores ==
    {<<>>} \cup
    { <<[code |-> 1, url |-> u, user |-> 1, expires |-> x, clicks |-> 0,
         active |-> a, deleted |-> FALSE]>> :
        u \in URLs, x \in ExpiresIns, a \in BOOLEAN }

Init ==
    /\ store \in InitStores
    /\ ecache = [c \in Codes |-> NoCached]
    /\ rcache = [k \in Keys |-> NoRespCached]
    /\ now = 0
    /\ pc = [w \in Workers |-> "idle"]
    /\ loc = [w \in Workers |-> InitLoc]
    /\ tasks = EmptyBag
    /\ quota \in Workloads
    /\ hSucc = [k \in Keys |-> 0]
    /\ hDeleted = [c \in Codes |-> FALSE]
    /\ hLastRead = [c \in Codes |-> -1]
    /\ hServed = [c \in Codes |-> 0]
    /\ events = NoEvents
    /\ metrics = NoMetrics
    /\ fn = NoFn

Spawn(ts, task) == ts (+) SetToBag({task})
Retire(ts, task) == ts (-) SetToBag({task})

SweepTask(c) == [kind |-> "sd", code |-> c, ent |-> NoEnt, pc |-> "run"]
ClickTask(e) == [kind |-> "click", code |-> e.code, ent |-> e, pc |-> "incr"]
\* the goroutine of RedirectURL: it holds the short code only
CountTask(c) == [kind |-> "count", code |-> c, ent |-> NoEnt, pc |-> "incr"]

\* --------------------------------------------------------------- CreateURL
\* CreateURL, step 1: the response-cache probe under the dedup key; a hit is
\* returned as it is.  Steps 2 and 3, after a miss: Validate and IsSafe, each
\* of which can end the call with an error.
CacheHitIgnored(cached) == FALSE

\* err == nil && cachedResponse != nil
CacheHit(cached) == cached.code # 0

CreateURL(w) ==
    /\ Accepts(w, "create")
    /\ \E u \in quota.urls, o \in 1..quota.users, x \in ExpiresIns,
          out \in CacheOutcomes :
         LET key == GenerateResponseCacheKey(u, o)
             hit == IF out = "ok" THEN GetResponse(rcache, key) ELSE NoResp
             lv  == LiveRows(store, key, now)
             l0  == [InitLoc EXCEPT !.op = "create", !.url = u, !.user = o,
                        !.exp = x, !.hit = hit, !.prev = hSucc[key],
                        !.delAt = {c \in Codes : hDeleted[c]},
                        !.fresh = ~(\E i \in DOMAIN store : KeyOf(store[i]) = key),
                        !.lapsed = /\ \E i \in DOMAIN store : KeyOf(store[i]) = key
                                   /\ \A i \in DOMAIN store :
                                        KeyOf(store[i]) = key
                                        => store[i].active /\ Expired(store[i], now),
                        !.liveAt = IF lv = {} THEN 0 ELSE store[Max(lv)].code]
             l1  == [l0 EXCEPT !.validated = TRUE]
         IN  IF CacheHit(hit)
             THEN /\ loc' = [loc EXCEPT ![w] = [l0 EXCEPT !.res = OkRes(hit)]]
                  /\ pc' = [pc EXCEPT ![w] = "done"]
             ELSE IF Validate(Raw(u)) # "ok"
             THEN /\ loc' = [loc EXCEPT ![w] = [l1 EXCEPT !.res = ErrRes("validation")]]
                  /\ pc' = [pc EXCEPT ![w] = "done"]
             ELSE IF ~IsSafe(Raw(u))
             THEN /\ loc' = [loc EXCEPT ![w] = [l1 EXCEPT !.res = ErrRes("unsafe")]]
                  /\ pc' = [pc EXCEPT ![w] = "done"]
             ELSE /\ loc' = [loc EXCEPT ![w] = l1]
                  /\ pc' = [pc EXCEPT ![w] = "c_dedup"]
    /\ UNCHANGED <<events, metrics, fn, store, ecache, rcache, now, tasks, hSucc, hDeleted,
                   hLastRead, hServed>>

\* CreateURL, step 4: the owner-scoped dedup lookup
CreateURLDedup(w) ==
    /\ pc[w] = "c_dedup"
    /\ LET q == GetByOriginalURLAndUser(store, loc[w].url, loc[w].user, now)
       IN  /\ tasks' = IF q.sweep # 0 THEN Spawn(tasks, SweepTask(q.sweep)) ELSE tasks
           /\ IF q.ent.code # 0
              THEN /\ loc' = [loc EXCEPT ![w].res = OkRes(buildURLResponse(q.ent)),
                                         ![w].lookups = 1]
                   /\ pc' = [pc EXCEPT ![w] = "c_rset"]
              ELSE /\ loc' = [loc EXCEPT ![w].attempt = 1, ![w].lookups = 1]
                   /\ pc' = [pc EXCEPT ![w] = "c_gen"]
    /\ UNCHANGED <<events, metrics, fn, store, ecache, rcache, now, hSucc, hDeleted, hLastRead,
                   hServed, quota>>

\* generateUniqueShortCode: up to maxProbes iterations of {draw a code, probe
\* the store for it}; the first code the probe does not find is returned, and
\* 0 stands for the error after maxProbes found codes.  The draws are
\* independent, so iteration i can end with any free code or go on with any
\* found one.  The probes of one call are taken at one instant: an earlier
\* probe has no effect but to count.
RECURSIVE ProbeOutcomes(_, _, _)
ProbeOutcomes(st, t, i) ==
    IF i >= maxProbes THEN {0}
    ELSE LET found == {c \in Codes : GetByShortCode(st, c, t).code # 0}
         IN  (Codes \ found)
             \cup (IF found = {} THEN {} ELSE ProbeOutcomes(st, t, i + 1))

generateUniqueShortCode(w) ==
    /\ pc[w] = "c_gen"
    /\ \E c \in ProbeOutcomes(store, now, 0) :
         IF c # 0
         THEN /\ loc' = [loc EXCEPT ![w].code = c, ![w].gens = @ + 1]
              /\ pc' = [pc EXCEPT ![w] = "c_insert"]
         ELSE /\ loc' = [loc EXCEPT ![w].res = ErrRes("generate"),
                                    ![w].gens = @ + 1]
              /\ pc' = [pc EXCEPT ![w] = "done"]
    /\ UNCHANGED <<events, metrics, fn, store, ecache, rcache, now, tasks, quota,
                   hSucc, hDeleted, hLastRead, hServed>>

ExpiresAtOfAnyValue(expiresIn, t) ==
    IF expiresIn # <<>> THEN t + expiresIn[1] ELSE 0

\* attemptCreateURL: the entity built from the request.  ExpiresIn is a
\* pointer: <<>> is nil, <<n>> points to n; expires 0 is a nil ExpiresAt.
ExpiresAt(expiresIn, t) ==
    IF expiresIn # <<>> /\ expiresIn[1] > 0 THEN t + expiresIn[1] ELSE 0

NewURL(u, o, expiresIn, c, t) ==
    [code |-> c, url |-> u, user |-> o, expires |-> ExpiresAt(expiresIn, t),
     clicks |-> 0, active |-> TRUE, deleted |-> FALSE]

\* attemptCreateURL: build the entity and repo.Create it; createNewURLWithRetry
\* classifies a failure
attemptCreateURL(w) ==
    /\ pc[w] = "c_insert"
    /\ LET l == loc[w]
           row == NewURL(l.url, l.user, <<l.exp>>, l.code, now)
       IN  \E out \in InsertOutcomes(store, row) :
             IF out = "ok"
             THEN /\ store' = Append(store, row)
                  /\ loc' = [loc EXCEPT ![w].ent = EntOf(row), ![w].created = row.code,
                                        ![w].persists = @ + 1]
                  /\ pc' = [pc EXCEPT ![w] = "c_cset"]
             ELSE /\ store' = store
                  /\ IF isDuplicateShortCodeError(out)
                     THEN IF l.attempt = maxCreateAttempts
                          THEN /\ loc' = [loc EXCEPT ![w].persists = @ + 1,
                                                     ![w].lastErr = out]
                               /\ pc' = [pc EXCEPT ![w] = "c_fallback"]
                          ELSE /\ loc' = [loc EXCEPT ![w].attempt = @ + 1,
                                                     ![w].persists = @ + 1,
                                                     ![w].lastErr = out]
                               /\ pc' = [pc EXCEPT ![w] = "c_gen"]
                     ELSE /\ loc' = [loc EXCEPT ![w].res = ErrRes("persist"),
                                                ![w].persists = @ + 1,
                                                ![w].lastErr = out]
                          /\ pc' = [pc EXCEPT ![w] = "done"]
    /\ UNCHANGED <<events, metrics, fn, ecache, rcache, now, tasks, hSucc, hDeleted, hLastRead,
                   hServed, quota>>

\* a variant that returns the error of cache.Set or of PublishURLCreated
attemptCreateURLStrict(w) ==
    /\ pc[w] = "c_cset"
    /\ \E out \in CacheOutcomes, pub \in PublishOutcomes :
         /\ ecache' = IF out = "ok" THEN Set(ecache, loc[w].ent, now) ELSE ecache
         /\ events' = IF out = "ok" THEN Published(events, "created", pub) ELSE events
         /\ IF out = "ok" /\ pub = "ok"
            THEN /\ loc' = [loc EXCEPT ![w].res = OkRes(buildURLResponse(loc[w].ent)),
                                       ![w].cwrites = @ + 1]
                 /\ pc' = [pc EXCEPT ![w] = "c_rset"]
            ELSE /\ loc' = [loc EXCEPT ![w].res = ErrRes("persist"),
                                       ![w].cwrites = @ + 1,
                                       ![w].elog = @ + Logged(out)]
                 /\ pc' = [pc EXCEPT ![w] = "done"]
    /\ UNCHANGED <<metrics, fn, store, rcache, now, tasks, hSucc, hDeleted, hLastRead,
                   hServed, quota>>

\* attemptCreateURL after the insert: best-effort cache.Set of the entity,
\* then PublishURLCreated
attemptCreateURLCache(w) ==
    /\ pc[w] = "c_cset"
    /\ \E out \in CacheOutcomes, pub \in PublishOutcomes :
         /\ ecache' = IF out = "ok" THEN Set(ecache, loc[w].ent, now) ELSE ecache
         /\ events' = Published(events, "created", pub)
         /\ loc' = [loc EXCEPT ![w].res = OkRes(buildURLResponse(loc[w].ent)),
                               ![w].cwrites = @ + 1,
                               ![w].elog = @ + Logged(out)]
    /\ pc' = [pc EXCEPT ![w] = "c_rset"]
    /\ UNCHANGED <<metrics, fn, store, rcache, now, tasks, hSucc, hDeleted, hLastRead,
                   hServed, quota>>

handleDuplicateErrorGivesUp(w) ==
    /\ pc[w] = "c_fallback"
    /\ loc' = [loc EXCEPT ![w].res = ErrRes("exhausted")]
    /\ pc' = [pc EXCEPT ![w] = "done"]
    /\ UNCHANGED <<events, metrics, fn, store, ecache, rcache, now, tasks,
                   hSucc, hDeleted, hLastRead, hServed, quota>>

\* handleDuplicateErrorFallback: the dedup lookup once more
handleDuplicateErrorFallback(w) ==
    /\ pc[w] = "c_fallback"
    /\ LET q == GetByOriginalURLAndUser(store, loc[w].url, loc[w].user, now)
       IN  /\ tasks' = IF q.sweep # 0 THEN Spawn(tasks, SweepTask(q.sweep)) ELSE tasks
           /\ IF q.ent.code # 0
              THEN /\ loc' = [loc EXCEPT ![w].res = OkRes(buildURLResponse(q.ent)),
                                         ![w].ent = q.ent, ![w].lookups = @ + 1]
                   /\ pc' = [pc EXCEPT ![w] = "c_rset"]
              ELSE /\ loc' = [loc EXCEPT ![w].res = ErrRes("exhausted"),
                                         ![w].lookups = @ + 1]
                   /\ pc' = [pc EXCEPT ![w] = "done"]
    /\ UNCHANGED <<events, metrics, fn, store, ecache, rcache, now, hSucc, hDeleted, hLastRead,
                   hServed, quota>>

\* CreateURL, step 6: cache the response under the dedup key for 5 minutes
CreateURLCacheResponse(w) ==
    /\ pc[w] = "c_rset"
    /\ \E out \in CacheOutcomes :
         rcache' = IF out = "ok"
                   THEN SetResponse(rcache,
                            GenerateResponseCacheKey(loc[w].url, loc[w].user),
                            loc[w].res.resp, responseTTL, now)
                   ELSE rcache
    /\ loc' = [loc EXCEPT ![w].cwrites = @ + 1]
    /\ pc' = [pc EXCEPT ![w] = "done"]
    /\ UNCHANGED <<events, metrics, fn, store, ecache, now, tasks, hSucc, hDeleted,
                   hLastRead, hServed, quota>>


\* ------------------------------------------------------------------ GetURL
\* The checks GetURL and GetURLAndIncrementClick apply to the entity they
\* hold: inactive or expired is reported as not found.
ServableUnlessInactive(e, t) == e.active

Servable(e, t) == e.active /\ ~Expired(e, t)

\* a variant that returns the error of cache.Get
GetURLStrict(w) ==
    /\ Accepts(w, "get")
    /\ \E c \in Codes, out \in CacheOutcomes :
         LET e  == IF out = "ok" THEN Get(ecache, c) ELSE NoEnt
             l0 == [InitLoc EXCEPT !.op = "get", !.code = c,
                       !.delAt = {d \in Codes : hDeleted[d]},
                       !.elog = Logged(out),
                       !.floor = hLastRead[c]]
         IN  IF out # "ok"
             THEN /\ loc' = [loc EXCEPT ![w] = [l0 EXCEPT !.res = ErrRes("cache")]]
                  /\ pc' = [pc EXCEPT ![w] = "done"]
             ELSE IF e.code # 0
             THEN /\ loc' = [loc EXCEPT ![w] =
                        [l0 EXCEPT !.ent = e,
                           !.res = IF Servable(e, now)
                                   THEN OkRes(buildURLResponse(e)) ELSE NotFound]]
                  /\ pc' = [pc EXCEPT ![w] = "done"]
             ELSE /\ loc' = [loc EXCEPT ![w] = l0]
                  /\ pc' = [pc EXCEPT ![w] = "g_sget"]
    /\ UNCHANGED <<events, metrics, fn, store, ecache, rcache, now, tasks, hSucc, hDeleted,
                   hLastRead, hServed>>

\* GetURL: the entity-cache read; a hit is checked and answered at once
GetURL(w) ==
    /\ Accepts(w, "get")
    /\ \E c \in Codes, out \in CacheOutcomes :
         LET e  == IF out = "ok" THEN Get(ecache, c) ELSE NoEnt
             l0 == [InitLoc EXCEPT !.op = "get", !.code = c,
                       !.delAt = {d \in Codes : hDeleted[d]},
                       !.elog = Logged(out),
                       !.expAt = \E i \in DOMAIN store :
                                    store[i].code = c /\ Expired(store[i], now),
                       !.floor = hLastRead[c]]
         IN  IF e.code # 0
             THEN /\ loc' = [loc EXCEPT ![w] =
                        [l0 EXCEPT !.ent = e,
                           !.res = IF Servable(e, now)
                                   THEN OkRes(buildURLResponse(e)) ELSE NotFound]]
                  /\ pc' = [pc EXCEPT ![w] = "done"]
             ELSE /\ loc' = [loc EXCEPT ![w] = l0]
                  /\ pc' = [pc EXCEPT ![w] = "g_sget"]
    /\ UNCHANGED <<events, metrics, fn, store, ecache, rcache, now, tasks, hSucc, hDeleted,
                   hLastRead, hServed>>

\* GetURL on a cache miss: repo.GetByShortCode
GetURLStore(w) ==
    /\ pc[w] = "g_sget"
    /\ LET e == GetByShortCode(store, loc[w].code, now)
       IN  IF e.code = 0
           THEN /\ loc' = [loc EXCEPT ![w].res = NotFound]
                /\ pc' = [pc EXCEPT ![w] = "done"]
           ELSE /\ loc' = [loc EXCEPT ![w].ent = e]
                /\ pc' = [pc EXCEPT ![w] = "g_cset"]
    /\ UNCHANGED <<events, metrics, fn, store, ecache, rcache, now, tasks, hSucc, hDeleted,
                   hLastRead, hServed, quota>>

\* GetURL after a store hit: repopulate the entity cache, then the checks
GetURLCache(w) ==
    /\ pc[w] = "g_cset"
    /\ \E out \in CacheOutcomes :
         /\ ecache' = IF out = "ok" THEN Set(ecache, loc[w].ent, now) ELSE ecache
         /\ loc' = [loc EXCEPT ![w].res =
                       IF Servable(loc[w].ent, now)
                       THEN OkRes(buildURLResponse(loc[w].ent)) ELSE NotFound,
                               ![w].elog = @ + Logged(out)]
    /\ pc' = [pc EXCEPT ![w] = "done"]
    /\ UNCHANGED <<events, metrics, fn, store, rcache, now, tasks, hSucc, hDeleted, hLastRead,
                   hServed, quota>>

\* ------------------------------------------------- GetURLAndIncrementClick
\* history: code c has no live entity and no DeleteURL of it is under way
Gone(c) ==
    /\ ~\E i \in DOMAIN store : store[i].code = c /\ Live(store[i], now)
    /\ ~\E v \in Workers : loc[v].op = "delete" /\ loc[v].code = c
\* the redirect: as GetURL, and a served entity starts the detached click task
GetURLAndIncrementClick(w) ==
    /\ Accepts(w, "redirect")
    /\ \E c \in Codes, out \in CacheOutcomes :
         LET e  == IF out = "ok" THEN Get(ecache, c) ELSE NoEnt
             l0 == [InitLoc EXCEPT !.op = "redirect", !.code = c,
                       !.delAt = {d \in Codes : hDeleted[d]},
                       !.goneAt = Gone(c),
                       !.elog = Logged(out)]
         IN  IF e.code # 0
             THEN /\ loc' = [loc EXCEPT ![w] =
                        [l0 EXCEPT !.ent = e,
                           !.res = IF Servable(e, now)
                                   THEN OkRes(buildURLResponse(e)) ELSE NotFound]]
                  /\ pc' = [pc EXCEPT ![w] = "rdone"]
                  /\ tasks' = IF Servable(e, now)
                              THEN Spawn(tasks, ClickTask(e)) ELSE tasks
             ELSE /\ loc' = [loc EXCEPT ![w] = l0]
                  /\ pc' = [pc EXCEPT ![w] = "r_sget"]
                  /\ tasks' = tasks
    /\ UNCHANGED <<events, metrics, fn, store, ecache, rcache, now, hSucc, hDeleted, hLastRead,
                   hServed>>

GetURLAndIncrementClickStore(w) ==
    /\ pc[w] = "r_sget"
    /\ LET e == GetByShortCode(store, loc[w].code, now)
       IN  IF e.code = 0
           THEN /\ loc' = [loc EXCEPT ![w].res = NotFound]
                /\ pc' = [pc EXCEPT ![w] = "rdone"]
           ELSE /\ loc' = [loc EXCEPT ![w].ent = e]
                /\ pc' = [pc EXCEPT ![w] = "r_cset"]
    /\ UNCHANGED <<events, metrics, fn, store, ecache, rcache, now, tasks, hSucc, hDeleted,
                   hLastRead, hServed, quota>>

GetURLAndIncrementClickCache(w) ==
    /\ pc[w] = "r_cset"
    /\ \E out \in CacheOutcomes :
         /\ ecache' = IF out = "ok" THEN Set(ecache, loc[w].ent, now) ELSE ecache
         /\ loc' = [loc EXCEPT ![w].res =
                       IF Servable(loc[w].ent, now)
                       THEN OkRes(buildURLResponse(loc[w].ent)) ELSE NotFound,
                               ![w].elog = @ + Logged(out)]
    /\ LET e == loc[w].ent
       IN  /\ tasks' = IF Servable(e, now) THEN Spawn(tasks, ClickTask(e))
                       ELSE tasks
    /\ pc' = [pc EXCEPT ![w] = "rdone"]
    /\ UNCHANGED <<events, metrics, fn, store, rcache, now, hSucc, hDeleted, hLastRead, hServed,
                   quota>>

\* RedirectURL: GetURL, whose steps follow this first one
RedirectURL(w) ==
    /\ Accepts(w, "redirectURL")
    /\ \E c \in Codes, out \in CacheOutcomes :
         LET e  == IF out = "ok" THEN Get(ecache, c) ELSE NoEnt
             l0 == [InitLoc EXCEPT !.op = "redirectURL", !.code = c,
                       !.delAt = {d \in Codes : hDeleted[d]},
                       !.goneAt = Gone(c),
                       !.elog = Logged(out)]
         IN  IF e.code # 0
             THEN /\ loc' = [loc EXCEPT ![w] =
                        [l0 EXCEPT !.ent = e,
                           !.res = IF Servable(e, now)
                                   THEN OkRes(buildURLResponse(e)) ELSE NotFound]]
                  /\ pc' = [pc EXCEPT ![w] = "done"]
             ELSE /\ loc' = [loc EXCEPT ![w] = l0]
                  /\ pc' = [pc EXCEPT ![w] = "g_sget"]
    /\ UNCHANGED <<events, metrics, fn, store, ecache, rcache, now, tasks, hSucc, hDeleted,
                   hLastRead, hServed>>

\* RedirectURL after GetURL: no response is the error "URL not found"; a
\* response starts the detached goroutine and is returned
RedirectURLSpawn(w) ==
    /\ pc[w] = "done" /\ loc[w].op = "redirectURL"
    /\ tasks' = IF loc[w].res.st = "ok"
                THEN Spawn(tasks, CountTask(loc[w].code)) ELSE tasks
    /\ pc' = [pc EXCEPT ![w] = "rdone"]
    /\ UNCHANGED <<events, metrics, fn, store, ecache, rcache, now, loc, hSucc, hDeleted,
                   hLastRead, hServed, quota>>

\* a variant whose goroutine returns when repo.IncrementClickCount fails
ClickIncrementStrict ==
    \E t \in BagToSet(tasks) :
       /\ t.kind \in {"click", "count"} /\ t.pc = "incr"
       /\ store' = IncrementClickCount(store, t.code)
       /\ tasks' = IF store' = store THEN Retire(tasks, t)
                   ELSE Spawn(Retire(tasks, t), [t EXCEPT !.pc = "cset"])
       /\ UNCHANGED <<events, metrics, fn, ecache, rcache, now, pc, loc, hSucc, hDeleted,
                      hLastRead, hServed, quota>>

\* the detached goroutine: repo.IncrementClickCount (an error is only logged)
ClickIncrement ==
    \E t \in BagToSet(tasks) :
       /\ t.kind \in {"click", "count"} /\ t.pc = "incr"
       /\ store' = IncrementClickCount(store, t.code)
       /\ tasks' = Spawn(Retire(tasks, t), [t EXCEPT !.pc = "cset"])
       /\ UNCHANGED <<events, metrics, fn, ecache, rcache, now, pc, loc, hSucc, hDeleted,
                      hLastRead, hServed, quota>>

\* the detached goroutine: PublishURLClicked, then cache.Set of the entity
\* read by the redirect, with its click count incremented locally
ClickRefresh ==
    \E t \in BagToSet(tasks) :
       /\ t.kind = "click" /\ t.pc = "cset"
       /\ \E pub \in PublishOutcomes, out \in CacheOutcomes :
            /\ events' = Published(events, "clicked", pub)
            /\ ecache' = IF out = "ok"
                         THEN Set(ecache, [t.ent EXCEPT !.clicks = @ + 1], now)
                         ELSE ecache
       /\ tasks' = Retire(tasks, t)
       /\ UNCHANGED <<metrics, fn, store, rcache, now, pc, loc, hSucc, hDeleted,
                      hLastRead, hServed, quota>>

\* the detached goroutine of RedirectURL: PublishURLClicked
ClickPublish ==
    \E t \in BagToSet(tasks) :
       /\ t.kind = "count" /\ t.pc = "cset"
       /\ \E pub \in PublishOutcomes :
            events' = Published(events, "clicked", pub)
       /\ tasks' = Retire(tasks, t)
       /\ UNCHANGED <<metrics, fn, store, ecache, rcache, now, pc, loc, hSucc, hDeleted,
                      hLastRead, hServed, quota>>

\* the detached goroutine of GetByOriginalURLAndUser: SoftDelete of the
\* expired row
Sweep ==
    \E t \in BagToSet(tasks) :
       /\ t.kind = "sd"
       /\ store' = SoftDelete(store, t.code)
       /\ tasks' = Retire(tasks, t)
       /\ LET K == {KeyOf(store[i]) : i \in {j \in DOMAIN store :
                                               store[j] # store'[j]}}
          IN  /\ loc' = Forget(loc, K)
              /\ hSucc' = ForgetSucc(hSucc, K)
       /\ UNCHANGED <<events, metrics, fn, ecache, rcache, now, pc, hDeleted, hLastRead, hServed,
                      quota>>

\* --------------------------------------------------------------- DeleteURL
\* DeleteURL: repo.Delete; no row affected is the error "URL not found"
DeleteURL(w) ==
    /\ Accepts(w, "delete")
    /\ \E c \in Codes :
         LET l0 == [InitLoc EXCEPT !.op = "delete", !.code = c,
                        !.goneAt = ~\E i \in DOMAIN store :
                                       store[i].code = c /\ store[i].active]
         IN  IF DeleteRows(store, c) = {}
             THEN /\ loc' = [loc EXCEPT ![w] = [l0 EXCEPT !.res = ErrRes("notfound")]]
                  /\ pc' = [pc EXCEPT ![w] = "done"]
                  /\ UNCHANGED <<events, metrics, fn, store, hSucc>>
             ELSE LET K == {KeyOf(store[i]) : i \in DeleteRows(store, c)}
                  IN  /\ store' = Delete(store, c)
                      /\ loc' = [Forget(loc, K) EXCEPT ![w] = l0]
                      /\ hSucc' = ForgetSucc(hSucc, K)
                      /\ pc' = [pc EXCEPT ![w] = "d_cdel"]
    /\ UNCHANGED <<events, metrics, fn, ecache, rcache, now, tasks, hDeleted, hLastRead, hServed>>

\* DeleteURL after the store update: best-effort cache.Delete
DeleteURLCache(w) ==
    /\ pc[w] = "d_cdel"
    /\ \E out \in CacheOutcomes :
         /\ ecache' = IF out = "ok" THEN CacheDelete(ecache, loc[w].code) ELSE ecache
         /\ loc' = [loc EXCEPT ![w].res = OkRes(NoResp),
                               ![w].elog = @ + Logged(out)]
    /\ pc' = [pc EXCEPT ![w] = "ddone"]
    /\ UNCHANGED <<events, metrics, fn, store, rcache, now, tasks, hSucc, hDeleted, hLastRead,
                   hServed, quota>>

\* ------------------------------------------------------ request boundary
\* net/http status codes the HTTP handler answers with
StatusOK == 200
StatusCreated == 201
StatusInternalServerError == 500
StatusBadRequest == 400

\* err.Error() of a service error, as the parts it is made of: the service's
\* own message and, for a failed persist, the store error wrapped with %w
ErrorText(l) ==
    {l.res.err} \cup (IF l.res.err = "persist" THEN {l.lastErr} ELSE {})

\* HTTPHandler.CreateURL, after the service call
HTTPCreateURL(l) ==
    IF l.res.st = "err"
    THEN [status |-> StatusInternalServerError, body |-> ErrorText(l)]
    ELSE [status |-> StatusCreated, body |-> {}]

\* HTTPHandler.DeleteURL, after the service call
HTTPDeleteURL(l) ==
    IF l.res.st = "err"
    THEN [status |-> StatusInternalServerError, body |-> ErrorText(l)]
    ELSE [status |-> StatusOK, body |-> {}]

\* GRPCHandler.CreateURL, after the service call
GRPCCreateURL(l) ==
    IF l.res.st = "err"
    THEN [status |-> "Internal", body |-> {"failed to create URL"} \cup ErrorText(l)]
    ELSE [status |-> "OK", body |-> {}]

\* ------------------------------------------------------------------ return
\* The handler returns its result to the caller; the history variables
\* record what was returned.
ReturnCreate(w) ==
    /\ pc[w] = "done" /\ loc[w].op = "create"
    /\ hSucc' = IF loc[w].res.st = "ok" /\ loc[w].clean
                THEN [hSucc EXCEPT ![<<loc[w].url, loc[w].user>>] = loc[w].res.resp.code]
                ELSE hSucc
    /\ UNCHANGED <<hDeleted, hLastRead, hServed>>

ReturnGet(w) ==
    /\ pc[w] = "done" /\ loc[w].op = "get"
    /\ hLastRead' = IF loc[w].res.st = "ok"
                    THEN [hLastRead EXCEPT ![loc[w].code] = loc[w].res.resp.clicks]
                    ELSE hLastRead
    /\ UNCHANGED <<hSucc, hDeleted, hServed>>

ReturnRedirect(w) ==
    /\ pc[w] = "rdone"
    /\ hServed' = IF loc[w].res.st = "ok"
                  THEN [hServed EXCEPT ![loc[w].code] = @ + 1]
                  ELSE hServed
    /\ UNCHANGED <<hSucc, hDeleted, hLastRead>>

\* DeleteURL returns nil after the cache delete, or the error "URL not found"
ReturnDelete(w) ==
    /\ \/ pc[w] = "ddone"
       \/ pc[w] = "done" /\ loc[w].op = "delete"
    /\ hDeleted' = IF loc[w].res.st = "ok"
                   THEN [hDeleted EXCEPT ![loc[w].code] = TRUE]
                   ELSE hDeleted
    /\ UNCHANGED <<hSucc, hLastRead, hServed>>

Return(w) ==
    /\ \/ ReturnCreate(w)
       \/ ReturnGet(w)
       \/ ReturnRedirect(w)
       \/ ReturnDelete(w)
    /\ pc' = [pc EXCEPT ![w] = "idle"]
    /\ loc' = [loc EXCEPT ![w] = InitLoc]
    /\ UNCHANGED <<events, metrics, fn, store, ecache, rcache, now, tasks, quota>>

\* -------------------------------------------------------------------- time
\* Time passes: Redis drops the keys whose time to live has run out.
Tick ==
    /\ now + 2 <= MaxTime
    /\ now' = now + 2
    /\ ecache' = [c \in Codes |->
                    IF Unexpired(ecache[c], now + 2) THEN ecache[c] ELSE NoCached]
    /\ rcache' = [k \in Keys |->
                    IF Unexpired(rcache[k], now + 2) THEN rcache[k] ELSE NoRespCached]
    /\ LET K == {KeyOf(store[i]) : i \in {j \in DOMAIN store :
                      Expired(store[j], now + 2) /\ ~Expired(store[j], now)}}
       IN  /\ loc' = Forget(loc, K)
           /\ hSucc' = ForgetSucc(hSucc, K)
    /\ UNCHANGED <<events, metrics, fn, store, pc, tasks, hDeleted, hLastRead, hServed, quota>>

\* -------------------------------------------------------------------- spec
Next ==
    \/ \E w \in Workers : CreateURL(w)
    \/ \E w \in Workers : CreateURLDedup(w)
    \/ \E w \in Workers : generateUniqueShortCode(w)
    \/ \E w \in Workers : attemptCreateURL(w)
    \/ \E w \in Workers : attemptCreateURLCache(w)
    \/ \E w \in Workers : handleDuplicateErrorFallback(w)
    \/ \E w \in Workers : CreateURLCacheResponse(w)
    \/ \E w \in Workers : GetURL(w)
    \/ \E w \in Workers : GetURLStore(w)
    \/ \E w \in Workers : GetURLCache(w)
    \/ \E w \in Workers : GetURLAndIncrementClick(w)
    \/ \E w \in Workers : GetURLAndIncrementClickStore(w)
    \/ \E w \in Workers : GetURLAndIncrementClickCache(w)
    \/ \E w \in Workers : RedirectURL(w)
    \/ \E w \in Workers : RedirectURLSpawn(w)
    \/ \E w \in Workers : DeleteURL(w)
    \/ \E w \in Workers : DeleteURLCache(w)
    \/ \E w \in Workers : Return(w)
    \/ ClickIncrement
    \/ ClickRefresh
    \/ ClickPublish
    \/ Sweep
    \/ Tick

Spec == Init /\ [][Next]_vars

\* ------------------------------------------------- Validate, on its own
\* The service at rest: no request arrives.
NoWork == [create |-> 0, get |-> 0, redirect |-> 0, redirectURL |-> 0, delete |-> 0,
           users |-> 1, urls |-> URLs, faulty |-> FALSE, lossy |-> FALSE]

AtRest ==
    /\ store = <<>>
    /\ ecache = [c \in Codes |-> NoCached]
    /\ rcache = [k \in Keys |-> NoRespCached]
    /\ now = 0
    /\ pc = [w \in Workers |-> "idle"]
    /\ loc = [w \in Workers |-> InitLoc]
    /\ tasks = EmptyBag
    /\ quota = NoWork
    /\ hSucc = [k \in Keys |-> 0]
    /\ hDeleted = [c \in Codes |-> FALSE]
    /\ hLastRead = [c \in Codes |-> -1]
    /\ hServed = [c \in Codes |-> 0]
    /\ events = NoEvents

\* Validate is applied to one raw URL of RawURLs.
InitValidate ==
    /\ AtRest
    /\ metrics = NoMetrics
    /\ fn \in {[op |-> "Validate", arg |-> r, out |-> ""] : r \in RawURLs}

ApplyValidate ==
    /\ fn.op = "Validate" /\ fn.out = ""
    /\ fn' = [fn EXCEPT !.out = Validate(fn.arg)]
    /\ UNCHANGED <<core, metrics>>

NextValidate == ApplyValidate

SpecValidate == InitValidate /\ [][NextValidate]_vars

\* ------------------------------------- the entity of a request, on its own
\* CreateURLRequest.ExpiresIn: nil, or a pointer to a number of seconds
ExpiresInPtrs == {<<>>} \cup {<<n>> : n \in -MaxExpiresIn..MaxExpiresIn}

\* attemptCreateURL builds the entity of one request, with one generated
\* code, at one time; buildURLResponse makes the response of it.
InitNewURL ==
    /\ AtRest
    /\ metrics = NoMetrics
    /\ fn \in {[op |-> "NewURL",
                 arg |-> [url |-> u, user |-> o, expiresIn |-> x, code |-> c,
                          t |-> t],
                 done |-> FALSE, ent |-> NoEnt, resp |-> NoResp] :
                 u \in URLs, o \in Users, x \in ExpiresInPtrs, c \in Codes,
                 t \in 0..MaxTime}

ApplyNewURL ==
    /\ fn.op = "NewURL" /\ ~fn.done
    /\ LET a == fn.arg
           url == EntOf(NewURL(a.url, a.user, a.expiresIn, a.code, a.t))
       IN  fn' = [fn EXCEPT !.done = TRUE, !.ent = url,
                            !.resp = buildURLResponse(url)]
    /\ UNCHANGED <<core, metrics>>

NextNewURL == ApplyNewURL

SpecNewURL == InitNewURL /\ [][NextNewURL]_vars

\* ------------------------------------------ InMemoryMetrics, on its own
\* The counters of the one InMemoryMetrics instance, as the concurrent
\* CreateURL calls update them.  metrics is a record:
\*   counters  the map m.counters: name -> cell (0: no entry)
\*   cells     the int64 cells made by new(int64), by cell number
\*   calls     per worker: position inside IncrementCounter, its name, the
\*             cell it made, the pointer it loaded
\*   started   CreateURL calls begun;  done: name -> IncrementCounter returns
\*   raced     an unsynchronised access to the map has met a map write
\*   fatal     the runtime has stopped the process
NoCall == [pc |-> "idle", name |-> "", cell |-> 0, ptr |-> 0]

InitMetrics ==
    /\ AtRest
    /\ fn = NoFn
    /\ metrics = [counters |-> [n \in CounterNames |-> 0],
                  cells |-> <<>>,
                  calls |-> [w \in Workers |-> NoCall],
                  started |-> 0,
                  done |-> [n \in CounterNames |-> 0],
                  raced |-> FALSE,
                  fatal |-> FALSE]

\* a map assignment by another goroutine is under way
MapWriters(w) == {v \in Workers \ {w} : metrics.calls[v].pc = "storing"}

\* What an unsynchronised read of m.counters[name] can give while other
\* goroutines assign to the map: the entry before or after an assignment to
\* the same name, or the runtime's fatal error (-1); without a writer, the
\* entry.
MapRead(w, name) ==
    {metrics.counters[name]}
    \cup (IF MapWriters(w) # {} THEN {-1} ELSE {})
    \cup {metrics.calls[v].cell :
            v \in {x \in MapWriters(w) : metrics.calls[x].name = name}}

\* CreateURL: s.metrics.IncrementCounter("url_create_requests_total")
IncrementCounter(w) ==
    /\ ~metrics.fatal
    /\ metrics.calls[w].pc = "idle"
    /\ metrics.started < MaxCreates
    /\ metrics' = [metrics EXCEPT !.started = @ + 1,
                     !.calls[w] = [NoCall EXCEPT !.pc = "check",
                                                 !.name = RequestsTotal]]
    /\ UNCHANGED <<core, fn>>

\* if _, exists := m.counters[name]; !exists
IncrementCounterCheck(w) ==
    /\ ~metrics.fatal
    /\ metrics.calls[w].pc = "check"
    /\ \E e \in MapRead(w, metrics.calls[w].name) :
         metrics' = [metrics EXCEPT
                       !.raced = @ \/ MapWriters(w) # {},
                       !.fatal = (e = -1),
                       !.calls[w].pc = IF e = -1 THEN "dead"
                                       ELSE IF e = 0 THEN "new" ELSE "load"]
    /\ UNCHANGED <<core, fn>>

\* m.counters[name] = new(int64): the cell is made and the assignment begins
IncrementCounterNew(w) ==
    /\ ~metrics.fatal
    /\ metrics.calls[w].pc = "new"
    /\ \E crash \in IF MapWriters(w) # {} THEN BOOLEAN ELSE {FALSE} :
         metrics' = [metrics EXCEPT
                       !.cells = Append(@, 0),
                       !.raced = @ \/ MapWriters(w) # {},
                       !.fatal = crash,
                       !.calls[w].cell = Len(metrics.cells) + 1,
                       !.calls[w].pc = IF crash THEN "dead" ELSE "storing"]
    /\ UNCHANGED <<core, fn>>

\* the assignment ends: the map holds the new cell under the name
IncrementCounterStore(w) ==
    /\ ~metrics.fatal
    /\ metrics.calls[w].pc = "storing"
    /\ metrics' = [metrics EXCEPT
                     !.counters[metrics.calls[w].name] = metrics.calls[w].cell,
                     !.calls[w].pc = "load"]
    /\ UNCHANGED <<core, fn>>

\* the operand m.counters[name] of atomic.AddInt64: a nil pointer panics
IncrementCounterLoad(w) ==
    /\ ~metrics.fatal
    /\ metrics.calls[w].pc = "load"
    /\ \E e \in MapRead(w, metrics.calls[w].name) :
         metrics' = [metrics EXCEPT
                       !.raced = @ \/ MapWriters(w) # {},
                       !.fatal = (e <= 0),
                       !.calls[w].ptr = e,
                       !.calls[w].pc = IF e <= 0 THEN "dead" ELSE "add"]
    /\ UNCHANGED <<core, fn>>

\* atomic.AddInt64(ptr, 1), and the return; CreateURL then ends or counts
\* its outcome
IncrementCounterAdd(w) ==
    /\ ~metrics.fatal
    /\ metrics.calls[w].pc = "add"
    /\ \E next \in IF metrics.calls[w].name = RequestsTotal
                     THEN OutcomeCounters \cup {""} ELSE {""} :
         metrics' = [metrics EXCEPT
                       !.cells[metrics.calls[w].ptr] = @ + 1,
                       !.done[metrics.calls[w].name] = @ + 1,
                       !.calls[w] = IF next = "" THEN NoCall
                                    ELSE [NoCall EXCEPT !.pc = "check",
                                                        !.name = next]]
    /\ UNCHANGED <<core, fn>>

NextMetrics ==
    \E w \in Workers :
        \/ IncrementCounter(w)
        \/ IncrementCounterCheck(w)
        \/ IncrementCounterNew(w)
        \/ IncrementCounterStore(w)
        \/ IncrementCounterLoad(w)
        \/ IncrementCounterAdd(w)

SpecMetrics == InitMetrics /\ [][NextMetrics]_vars

\* ----------------------------------- a create request at the transports
\* One create request from its arrival at a handler to the entity the service
\* makes of it, over the service at rest.  fn is a record:
\*   transport  "http" or "grpc"
\*   userId     the user_id of the message: <<>> when absent, else <<n>>
\*   expiresIn  the expires_in of the message, likewise
\*   pc         "recv": at the handler; "svc": forwarded to URLService.CreateURL;
\*              "end": answered
\*   status     the status the handler answers with
\*   req        the domain.CreateURLRequest the handler forwards
\*   ent        the entity the service has persisted and cached
OwnerIds == -1..NumUsers
OwnerPtrs == {<<>>} \cup {<<n>> : n \in OwnerIds}
NoReq == [url |-> "", user |-> 0, expiresIn |-> <<>>]

InitRequest ==
    /\ AtRest
    /\ metrics = NoMetrics
    /\ fn \in {[op |-> "request", transport |-> tr, url |-> u, userId |-> o,
                 expiresIn |-> x, pc |-> "recv", status |-> "", req |-> NoReq,
                 ent |-> NoEnt] :
                 tr \in {"http", "grpc"}, u \in URLs, o \in OwnerPtrs,
                 x \in ExpiresInPtrs}

\* HTTPHandler.CreateURL up to the service call: ShouldBindJSON leaves an
\* absent user_id at 0 and binding:"required" refuses the zero value; then
\* the check req.UserID <= 0
HTTPAdmit(m) ==
    LET user == IF m.userId = <<>> THEN 0 ELSE m.userId[1]
    IN  IF user = 0 \/ user <= 0
        THEN [status |-> StatusBadRequest, req |-> NoReq]
        ELSE [status |-> "", req |-> [url |-> m.url, user |-> user,
                                      expiresIn |-> m.expiresIn]]

\* GRPCHandler.CreateURL up to the service call: a nil UserId is refused, any
\* other is copied; ExpiresIn is copied when it is set and positive
GRPCAdmit(m) ==
    IF m.userId = <<>>
    THEN [status |-> "InvalidArgument", req |-> NoReq]
    ELSE [status |-> "",
          req |-> [url |-> m.url, user |-> m.userId[1],
                   expiresIn |-> IF m.expiresIn # <<>> /\ m.expiresIn[1] > 0
                                 THEN m.expiresIn ELSE <<>>]]

HandleRequest ==
    /\ fn.op = "request" /\ fn.pc = "recv"
    /\ LET a == IF fn.transport = "http" THEN HTTPAdmit(fn) ELSE GRPCAdmit(fn)
       IN  fn' = [fn EXCEPT !.status = a.status, !.req = a.req,
                            !.pc = IF a.req = NoReq THEN "end" ELSE "svc"]
    /\ UNCHANGED <<core, metrics>>

\* URLService.CreateURL for the forwarded request, over the empty store and
\* caches: no step of it looks at the value of UserID, so a valid URL is
\* given a code and persisted
ServeRequest ==
    /\ fn.op = "request" /\ fn.pc = "svc"
    /\ \E c \in Codes :
         fn' = [fn EXCEPT
                  !.pc = "end",
                  !.status = IF Validate(Raw(fn.req.url)) = "ok"
                             THEN (IF fn.transport = "http" THEN StatusCreated ELSE "OK")
                             ELSE (IF fn.transport = "http"
                                   THEN StatusInternalServerError ELSE "Internal"),
                  !.ent = IF Validate(Raw(fn.req.url)) = "ok"
                          THEN EntOf(NewURL(fn.req.url, fn.req.user,
                                            fn.req.expiresIn, c, now))
                          ELSE NoEnt]
    /\ UNCHANGED <<core, metrics>>

NextRequest ==
    \/ HandleRequest
    \/ ServeRequest

SpecRequest == InitRequest /\ [][NextRequest]_vars

\* ------------------------------------------ the expiry of a new entity
\* attemptCreateURL's expiry arithmetic at the width of the Go types.
\* ExpiresIn is an int and time.Duration an int64: a 64-bit value is the
\* sequence of its eight bytes, least significant first, in two's complement.
\* fn is a record:
\*   expiresIn  the ExpiresIn of the request: <<>> when nil, else <<bytes>>
\*   pc         "build": before the expiry is set; "done": after
\*   set        whether url.ExpiresAt was set
\*   offset     the Duration added to time.Now() to make ExpiresAt
Int64Bytes == 1..8
Zero64 == <<0, 0, 0, 0, 0, 0, 0, 0>>

\* time.Second, 1000000000 nanoseconds = 0x3B9ACA00
Second == <<0, 202, 154, 59, 0, 0, 0, 0>>

Negative64(x) == x[8] >= 128
Positive64(x) == ~Negative64(x) /\ x # Zero64

\* the sum of the byte products that fall on byte k of a product
RECURSIVE Column(_, _, _, _)
Column(a, b, k, i) ==
    IF i > k THEN 0 ELSE a[i] * b[k + 1 - i] + Column(a, b, k, i + 1)

RECURSIVE MulBytes(_, _, _, _)
MulBytes(a, b, k, carry) ==
    IF k > 8 THEN <<>>
    ELSE LET t == carry + Column(a, b, k, 1)
         IN  <<t % 256>> \o MulBytes(a, b, k + 1, t \div 256)

\* the product of two int64 values: the low 64 bits, as Go's * keeps them
Mul64(a, b) == MulBytes(a, b, 1, 0)

\* the durations the request can carry: every value whose bytes are 0, 1 or
\* 128, and the values on either side of the largest whose product fits
ExpiresInValues ==
    [Int64Bytes -> {0, 1, 128}]
        \cup {<<4, 125, 193, 37, 2, 0, 0, 0>>,
              <<5, 125, 193, 37, 2, 0, 0, 0>>,
              <<255, 255, 255, 255, 255, 255, 255, 127>>}

InitExpiry ==
    /\ AtRest
    /\ metrics = NoMetrics
    /\ fn \in {[op |-> "expiry", expiresIn |-> x, pc |-> "build",
                 set |-> FALSE, offset |-> Zero64] :
                x \in {<<>>} \cup {<<v>> : v \in ExpiresInValues}}

\* if req.ExpiresIn != nil && *req.ExpiresIn > 0 {
\*     expiresAt := time.Now().Add(time.Duration(*req.ExpiresIn) * time.Second)
SetExpiration ==
    /\ fn.op = "expiry" /\ fn.pc = "build"
    /\ fn' = IF fn.expiresIn # <<>> /\ Positive64(fn.expiresIn[1])
             THEN [fn EXCEPT !.pc = "done", !.set = TRUE,
                             !.offset = Mul64(fn.expiresIn[1], Second)]
             ELSE [fn EXCEPT !.pc = "done"]
    /\ UNCHANGED <<core, metrics>>

NextExpiry == SetExpiration

SpecExpiry == InitExpiry /\ [][NextExpiry]_vars

\* ------------------------------------------- the Base62 code generator
\* One Base62Generator from its construction to the end of one Generate call.
\* fn is a record:
\*   n       the length NewBase62GeneratorWithLength is asked for
\*   pc      "new": not built; "ready": built; "loop": in GenerateWithLength;
\*           "end": Generate has returned
\*   g       the generator: its length and charset
\*   length  the length GenerateWithLength works with
\*   i       the loop counter of GenerateWithLength
\*   result  the characters written so far, and the string returned
\*   err     whether Generate returned an error
DefaultCharset ==
    <<"0", "1", "2", "3", "4", "5", "6", "7", "8", "9", "A", "B", "C", "D", "E", "F", "G", "H", "I", "J",
      "K", "L", "M", "N", "O", "P", "Q", "R", "S", "T", "U", "V", "W", "X", "Y", "Z", "a", "b", "c", "d", "e",
      "f", "g", "h", "i", "j", "k", "l", "m", "n", "o", "p", "q", "r", "s", "t", "u", "v", "w", "x", "y", "z">>

NoGenerator == [length |-> 0, charset |-> <<>>]

\* a variant that keeps the requested length as it is
NewBase62GeneratorUnclamped(length) ==
    [length |-> length, charset |-> DefaultCharset]

NewBase62GeneratorWithLength(length) ==
    LET atLeast == IF length < 4 THEN 4 ELSE length
        clamped == IF atLeast > 12 THEN 12 ELSE atLeast
    IN  [length |-> clamped, charset |-> DefaultCharset]

RequestedLengths == -1..MaxRequestedLength

\* the values rand.Int(rand.Reader, charsetLength) is taken to return: the
\* two ends of [0, charsetLength)
RandomIndices(charsetLength) == {0, charsetLength - 1}

InitBase62 ==
    /\ AtRest
    /\ metrics = NoMetrics
    /\ fn \in {[op |-> "base62", n |-> n, pc |-> "new", g |-> NoGenerator,
                 length |-> 0, i |-> 0, result |-> <<>>, err |-> FALSE] :
                n \in RequestedLengths}

NewBase62 ==
    /\ fn.op = "base62" /\ fn.pc = "new"
    /\ fn' = [fn EXCEPT !.pc = "ready", !.g = NewBase62GeneratorWithLength(fn.n)]
    /\ UNCHANGED <<core, metrics>>

\* Generate: GenerateWithLength(g.length), up to the loop
Generate ==
    /\ fn.op = "base62" /\ fn.pc = "ready"
    /\ fn' = [fn EXCEPT !.pc = "loop", !.i = 0, !.result = <<>>,
                        !.length = IF fn.g.length <= 0 THEN fn.g.length
                                   ELSE fn.g.length]
    /\ UNCHANGED <<core, metrics>>

\* one pass of the loop of GenerateWithLength, or its return after the last
GenerateWithLength ==
    /\ fn.op = "base62" /\ fn.pc = "loop"
    /\ IF fn.i < fn.length
       THEN \/ fn' = [fn EXCEPT !.pc = "end", !.result = <<>>, !.err = TRUE]
            \/ \E randomIndex \in RandomIndices(Len(fn.g.charset)) :
                 fn' = [fn EXCEPT !.result = Append(@, fn.g.charset[randomIndex + 1]),
                                  !.i = @ + 1]
       ELSE fn' = [fn EXCEPT !.pc = "end"]
    /\ UNCHANGED <<core, metrics>>

NextBase62 ==
    \/ NewBase62
    \/ Generate
    \/ GenerateWithLength

SpecBase62 == InitBase62 /\ [][NextBase62]_vars

\* ----------------------------------------- the Snowflake id generator
\* One SnowflakeGenerator called by two goroutines, and the wall clock that
\* time.Now() reads, which may be set back.  g.mu makes the body of Generate
\* one step; only the wait after a wrapped sequence holds the mutex over
\* several readings of the clock.  fn is a record:
\*   clock     the wall clock, in milliseconds
\*   sequence  g.sequence
\*   lastTime  g.lastTime
\*   mu        the caller that holds g.mu in the wait, 0 when it is free
\*   calls     the calls of Generate so far
\*   set       how often the clock was set back
\*   ids       the ids computed so far
\*   last      the id of the latest call
\*   twice     whether a call computed an id that an earlier call had computed
Callers == 1..2

\* id := ((now - g.epoch) << 22) | (g.machineID << 12) | g.sequence, by its
\* three bit fields
SnowflakeID(t, seq) == [timestamp |-> t, machine |-> 1, sequence |-> seq]

NoID == [timestamp |-> 0, machine |-> 0, sequence |-> 0]

InitSnowflake ==
    /\ AtRest
    /\ metrics = NoMetrics
    /\ fn = [op |-> "snowflake", clock |-> 1, sequence |-> 0, lastTime |-> 0,
             mu |-> 0, calls |-> 0, set |-> 0, ids |-> {}, last |-> NoID,
             twice |-> FALSE]

\* g.lastTime = now and the id, the end of Generate
Issued(m, t, seq) ==
    [m EXCEPT !.sequence = seq, !.lastTime = t, !.mu = 0,
              !.ids = @ \cup {SnowflakeID(t, seq)},
              !.last = SnowflakeID(t, seq),
              !.twice = @ \/ SnowflakeID(t, seq) \in m.ids]

\* Generate, from g.mu.Lock() to its return, or to the wait when the
\* sequence has wrapped
SnowflakeGenerate(w) ==
    /\ fn.op = "snowflake" /\ fn.mu = 0 /\ fn.calls < MaxCalls
    /\ LET t == fn.clock
           m == [fn EXCEPT !.calls = @ + 1]
       IN  fn' = IF t = fn.lastTime
                 THEN LET seq == (fn.sequence + 1) % SequenceValues
                      IN  IF seq = 0
                          THEN [m EXCEPT !.sequence = 0, !.mu = w]
                          ELSE Issued(m, t, seq)
                 ELSE Issued(m, t, 0)
    /\ UNCHANGED <<core, metrics>>

\* for now <= g.lastTime { now = time.Now().UnixNano() / 1e6 }: the reading
\* that ends the wait
SnowflakeWait(w) ==
    /\ fn.op = "snowflake" /\ fn.mu = w
    /\ fn.clock > fn.lastTime
    /\ fn' = Issued(fn, fn.clock, fn.sequence)
    /\ UNCHANGED <<core, metrics>>

ClockAdvance ==
    /\ fn.op = "snowflake" /\ fn.clock < MaxClock
    /\ fn' = [fn EXCEPT !.clock = @ + 1]
    /\ UNCHANGED <<core, metrics>>

\* the wall clock is set back, as a clock synchronisation does
ClockSetBack ==
    /\ fn.op = "snowflake" /\ fn.clock > 1 /\ fn.set < 1
    /\ fn' = [fn EXCEPT !.clock = @ - 1, !.set = @ + 1]
    /\ UNCHANGED <<core, metrics>>

NextSnowflake ==
    \/ \E w \in Callers : SnowflakeGenerate(w)
    \/ \E w \in Callers : SnowflakeWait(w)
    \/ ClockAdvance
    \/ ClockSetBack

SpecSnowflake == InitSnowflake /\ [][NextSnowflake]_vars

\* ------------------------- the detached goroutines of the redirects
\* One detached goroutine, from its start to its end, against collaborators
\* of which some never answer.  fn is a record:
\*   kind     "click": started by GetURLAndIncrementClick; "count": by RedirectURL
\*   ctx      the context the goroutine makes for its calls
\*   pc       the call it is in: "incr", "publish", "cset", or "end"
\*   silent   the collaborators that never answer a call
\*   clock    seconds since the goroutine started
\*   request  the context of the inbound request: "open" or "cancelled"
\*   errs     the calls that returned an error
\* context.WithTimeout(context.Background(), 10*time.Second) in
\* GetURLAndIncrementClick; context.Background() in RedirectURL (deadline 0:
\* none)
TaskContext(kind) ==
    IF kind = "click" THEN [parent |-> "background", deadline |-> clickTimeout]
    ELSE [parent |-> "background", deadline |-> 0]

\* ctx.Done() is closed
CtxDone(ctx, clock, request) ==
    \/ ctx.deadline # 0 /\ clock >= ctx.deadline
    \/ ctx.parent = "request" /\ request = "cancelled"

\* the collaborator a call goes to
Collaborator(call) ==
    CASE call = "incr" -> "store" [] call = "publish" -> "sink" [] OTHER -> "cache"

\* the call after call, in a goroutine of the kind
NextCall(kind, call) ==
    CASE call = "incr" -> "publish"
      [] call = "publish" -> IF kind = "click" THEN "cset" ELSE "end"
      [] OTHER -> "end"

InitDetached ==
    /\ AtRest
    /\ metrics = NoMetrics
    /\ fn \in {[op |-> "detached", kind |-> k, ctx |-> TaskContext(k),
                 pc |-> "incr", silent |-> q, clock |-> 0, request |-> "open",
                 errs |-> {}] :
                 k \in {"click", "count"}, q \in SUBSET {"store", "cache"}}

\* The call the goroutine is in returns.  db.ExecContext and the Redis calls
\* take ctx: they return when the collaborator answers, with success or an
\* error, and when ctx is done, with its error.  EventPublisher.publish takes
\* no context: SendMessage returns when the producer has the answer or has
\* used up its retries (Producer.Retry.Max = 5).  An error is logged and the
\* goroutine goes on.
DetachedReturn ==
    /\ fn.op = "detached" /\ fn.pc # "end"
    /\ \E out \in {"ok", "fail", "ctx"} :
         /\ IF fn.pc = "publish" THEN out # "ctx"
            ELSE IF out = "ctx" THEN CtxDone(fn.ctx, fn.clock, fn.request)
            ELSE Collaborator(fn.pc) \notin fn.silent
         /\ fn' = [fn EXCEPT !.pc = NextCall(fn.kind, fn.pc),
                              !.errs = IF out = "ok" THEN @ ELSE @ \cup {fn.pc}]
    /\ UNCHANGED <<core, metrics>>

\* a second passes
DetachedElapse ==
    /\ fn.op = "detached" /\ fn.pc # "end"
    /\ fn.clock < MaxWait
    /\ fn' = [fn EXCEPT !.clock = @ + 1]
    /\ UNCHANGED <<core, metrics>>

\* the inbound request is answered or dropped: its context is cancelled
DetachedCancelRequest ==
    /\ fn.op = "detached" /\ fn.request = "open"
    /\ fn' = [fn EXCEPT !.request = "cancelled"]
    /\ UNCHANGED <<core, metrics>>

NextDetached ==
    \/ DetachedReturn
    \/ DetachedElapse
    \/ DetachedCancelRequest

\* The Go scheduler runs a goroutine whose call can return, and time passes.
SpecDetached ==
    /\ InitDetached /\ [][NextDetached]_vars
    /\ WF_vars(DetachedReturn) /\ WF_vars(DetachedElapse)

\* ------------------------------------------------------------ properties
CreateDone(w) == pc[w] = "done" /\ loc[w].op = "create"
GetDone(w) == pc[w] = "done" /\ loc[w].op = "get"
RedirectDone(w) == pc[w] = "rdone"
ReqKey(w) == <<loc[w].url, loc[w].user>>

\* C1: a CreateURL that follows a successful CreateURL of the same (URL,
\* owner), with no delete or expiry of an entity of the pair in between or
\* during the calls, succeeds with the short code the first call returned, and
\* the store then holds exactly one live entity for the pair.
C1_IdempotentCreation ==
    \A w \in Workers :
        (CreateDone(w) /\ loc[w].prev # 0 /\ loc[w].clean) =>
            /\ loc[w].res.st = "ok"
            /\ loc[w].res.resp.code = loc[w].prev
            /\ Cardinality(LiveRows(store, ReqKey(w), now)) = 1

\* C2: two CreateURL calls that run concurrently for the same (URL, owner),
\* each started when the store held no row for the pair, both succeed with
\* the same short code, and the store holds exactly one row for the pair
\* (unless the generator ran out of draws, which is no matter of the pair).
C2_ConcurrentCreation ==
    \A w, v \in Workers :
        (w # v /\ CreateDone(w) /\ CreateDone(v) /\ ReqKey(w) = ReqKey(v)
             /\ loc[w].fresh /\ loc[v].fresh
             /\ loc[w].res.err # "generate" /\ loc[v].res.err # "generate") =>
            /\ loc[w].res.st = "ok"
            /\ loc[v].res.st = "ok"
            /\ loc[w].res.resp.code = loc[v].res.resp.code
            /\ Cardinality({i \in DOMAIN store : KeyOf(store[i]) = ReqKey(w)}) = 1

\* C3: in every reachable state no two live entities of the store have the
\* same short code.
C3_UniqueShortCodes ==
    \A i, j \in DOMAIN store :
        (i # j /\ Live(store[i], now) /\ Live(store[j], now)) =>
            store[i].code # store[j].code

\* two creations that ran concurrently have both inserted, and both rows
\* are live
C3_Witness ==
    \E w, v \in Workers :
        /\ w # v /\ CreateDone(w) /\ CreateDone(v)
        /\ loc[w].created # 0 /\ loc[v].created # 0
        /\ \E i, j \in DOMAIN store :
             /\ i # j /\ Live(store[i], now) /\ Live(store[j], now)
             /\ store[i].code = loc[w].created /\ store[j].code = loc[v].created

\* C4: in every reachable state the store holds at most one live entity for
\* each (owner id, original URL) pair.
C4_OneLivePerPair ==
    \A k \in Keys : Cardinality(LiveRows(store, k, now)) <= 1

\* a pair has a live entity a CreateURL has just inserted beside an earlier,
\* no longer live row of the same pair
C4_Witness ==
    \E w \in Workers :
        /\ CreateDone(w) /\ loc[w].created # 0
        /\ Cardinality(LiveRows(store, ReqKey(w), now)) = 1
        /\ \E i \in DOMAIN store :
             KeyOf(store[i]) = ReqKey(w) /\ ~Live(store[i], now)

\* C5: a successful CreateURL(U, O) during the whole of which one entity of
\* (O, U) was live returns that entity's short code and inserts no row.
\* (An entity live when the call started and live when it returns was live
\* throughout: no operation makes a row live again.)
C5_LiveEntityReused ==
    \A w \in Workers :
        (/\ CreateDone(w) /\ loc[w].res.st = "ok" /\ loc[w].liveAt # 0
         /\ \E i \in LiveRows(store, ReqKey(w), now) :
                store[i].code = loc[w].liveAt) =>
            /\ loc[w].res.resp.code = loc[w].liveAt
            /\ loc[w].created = 0

\* C6: a GetURL or redirect of a code, started after a DeleteURL of that code
\* has returned success, reports not-found.
C6_DeletedNotFound ==
    \A w \in Workers :
        ((GetDone(w) \/ RedirectDone(w)) /\ loc[w].code \in loc[w].delAt) =>
            loc[w].res.st = "notfound"

\* C7: once DeleteURL(code) has returned success, the dedup lookup for the
\* (owner, URL) of that entity does not return it, and a CreateURL started
\* afterwards does not return the deleted short code.
C7_DeletedNotReused ==
    /\ \A c \in Codes :
         hDeleted[c] =>
            \A i \in DOMAIN store :
                store[i].code = c =>
                    GetByOriginalURLAndUser(store, store[i].url, store[i].user,
                                            now).ent.code # c
    /\ \A w \in Workers :
         (CreateDone(w) /\ loc[w].res.st = "ok") =>
            loc[w].res.resp.code \notin loc[w].delAt

\* C8: a GetURL of a code whose entity had expired when the call started
\* returns not-found, from the entity cache as from the store, and the row
\* is still in the store.
C8_ExpiredNotFound ==
    \A w \in Workers :
        (GetDone(w) /\ loc[w].expAt) =>
            /\ loc[w].res.st = "notfound"
            /\ \E i \in DOMAIN store :
                 store[i].code = loc[w].code /\ Expired(store[i], now)

\* a GetURL has found the expired entity in the entity cache and answered
\* not-found
C8_Witness ==
    \E w \in Workers :
        /\ GetDone(w) /\ loc[w].expAt
        /\ loc[w].ent.code # 0 /\ Expired(loc[w].ent, now)
        /\ loc[w].res.st = "notfound"

\* C9: a GetURL that returns an entity returns a click count no lower than
\* the one the last GetURL of that code returned before this call started.
C9_MonotonicClicks ==
    \A w \in Workers :
        (GetDone(w) /\ loc[w].res.st = "ok") =>
            loc[w].res.resp.clicks >= loc[w].floor

\* Nothing is in flight: every request has returned and every detached task
\* has run to completion.
Settled == tasks = EmptyBag /\ \A w \in Workers : pc[w] = "idle"

\* The click count GetURL comes to return for the live row r once the system
\* has settled: the cached count for as long as the cache entry stays, the
\* stored count if the entry is gone (or goes) while r is still live.  Redis
\* counts an entry's time to live from the arrival of the SET, so an entry
\* with until = r.expires does not end before r does.
SettledRead(r) ==
    LET en == ecache[r.code]
    IN  IF en.code = 0 \/ (en.until # 0 /\ (r.expires = 0 \/ en.until < r.expires))
        THEN r.clicks
        ELSE en.clicks

\* C10: when Redis calls do not fail and the N redirects served for a live
\* code have returned and their detached tasks have completed, the click
\* count read through GetURL comes to equal the count before them (0) plus N.
C10_ClicksSettle ==
    (Settled /\ ~quota.faulty) =>
        \A i \in DOMAIN store :
            Live(store[i], now) =>
                SettledRead(store[i]) = hServed[store[i].code]

\* C11: when the response-cache lookup of CreateURL finds an entry under the
\* dedup key of (URL, owner), the call ends in that very step with the cached
\* response as its result: it has validated nothing, read and written
\* nothing in the store, written no cache, started no goroutine and published
\* no event.
C11_CacheHitReturns ==
    [][\A w \in Workers :
         (/\ pc[w] = "idle" /\ pc'[w] # "idle"
          /\ loc'[w].op = "create"
          /\ loc'[w].hit.code # 0)
         => /\ pc'[w] = "done"
            /\ loc'[w].res = OkRes(loc'[w].hit)
            /\ loc'[w].hit = GetResponse(rcache,
                                GenerateResponseCacheKey(loc'[w].url, loc'[w].user))
            /\ ~loc'[w].validated
            /\ loc'[w].lookups = 0 /\ loc'[w].persists = 0 /\ loc'[w].cwrites = 0
            /\ store' = store /\ ecache' = ecache /\ rcache' = rcache
            /\ events' = events /\ tasks' = tasks]_vars

C11_Witness ==
    \E w \in Workers :
        /\ pc[w] = "done" /\ loc[w].op = "create"
        /\ loc[w].hit.code # 0 /\ loc[w].res = OkRes(loc[w].hit)
        /\ rcache[GenerateResponseCacheKey(loc[w].url, loc[w].user)].code # 0
\* the host name of an authority: the text before the port
HostName(h) ==
    LET i == LastIndex(h, ":") IN IF i = 0 THEN h ELSE SubSeq(h, 1, i - 1)

\* a host matches a domain when its name, letter case set aside, is the
\* domain or a subdomain of it
MatchesDomain(h, d) ==
    LET n == ToLower(HostName(h)) IN n = d \/ HasSuffix(n, <<".">> \o d)

\* C12: Validate refuses the empty string, a URL whose scheme is not http or
\* https, a URL without a host and a URL whose host matches a blacklisted
\* shortener domain; it accepts every other http/https URL with a host.
C12_ValidateDecides ==
    (fn.op = "Validate" /\ fn.out # "")
    => LET u == Parse(fn.arg)
           refused == \/ fn.arg = <<>>
                      \/ u.err
                      \/ u.scheme \notin {http, https}
                      \/ u.host = <<>>
                      \/ \E d \in blacklistedDomains : MatchesDomain(u.host, d)
       IN  (fn.out = "ok") <=> ~refused
\* C13: when CreateURL is called with a URL that fails validation (here: its
\* scheme is neither http nor https) and the response-cache lookup finds
\* nothing, the call ends in that step with an error and leaves the store,
\* the entity cache, the response cache and the event sink as they were.
C13_InvalidURLRefused ==
    [][\A w \in Workers :
         (/\ pc[w] = "idle" /\ pc'[w] # "idle"
          /\ loc'[w].op = "create"
          /\ loc'[w].hit.code = 0
          /\ Parse(Raw(loc'[w].url)).scheme \notin {http, https})
         => /\ pc'[w] = "done"
            /\ loc'[w].res.st = "err"
            /\ loc'[w].res.err \in {"validation", "unsafe"}
            /\ loc'[w].lookups = 0 /\ loc'[w].persists = 0 /\ loc'[w].cwrites = 0
            /\ store' = store /\ ecache' = ecache /\ rcache' = rcache
            /\ events' = events /\ tasks' = tasks]_vars

C13_Witness ==
    \E w \in Workers :
        /\ pc[w] = "done" /\ loc[w].op = "create"
        /\ loc[w].url \in BadURLs /\ loc[w].hit.code = 0
        /\ loc[w].res = ErrRes("validation")
        /\ store # <<>>
\* C14: the entity made for a request whose ExpiresIn is absent, zero or
\* negative has no expires_at, and the response made of it has no expiresAt.
C14_NoExpiryWithoutDuration ==
    (/\ fn.op = "NewURL" /\ fn.done
     /\ (fn.arg.expiresIn = <<>> \/ fn.arg.expiresIn[1] <= 0))
    => fn.ent.expires = 0 /\ fn.resp.expires = 0

C14_Witness ==
    /\ fn.op = "NewURL" /\ fn.done
    /\ fn.arg.expiresIn = <<-1>> /\ fn.arg.t > 0
    /\ fn.ent.code = fn.arg.code /\ fn.ent.expires = 0 /\ fn.resp.expires = 0
\* C15: DeleteURL(code), called when no entity has the code or the entity
\* with the code is already inactive, reports the not-found error and changes
\* neither the store nor the entity cache.
C15_DeleteMissingNotFound ==
    [][\A w \in Workers :
         (/\ pc[w] = "idle" /\ pc'[w] # "idle"
          /\ loc'[w].op = "delete"
          /\ loc'[w].goneAt)
         => /\ pc'[w] = "done"
            /\ loc'[w].res = ErrRes("notfound")
            /\ store' = store /\ ecache' = ecache]_vars
\* GetCounters: the value read under a name (0 without an entry)
CounterValue(n) ==
    IF metrics.counters[n] = 0 THEN 0 ELSE metrics.cells[metrics.counters[n]]

\* C16: concurrent CreateURL calls on one instance never make unsynchronised
\* conflicting accesses to the metrics counter map (nor stop the process by
\* them), and no increment is lost: once every call has returned, each
\* counter reads the number of IncrementCounter calls made for it.
C16_SharedInstanceSafe ==
    /\ ~metrics.raced
    /\ ~metrics.fatal
    /\ (\A w \in Workers : metrics.calls[w].pc = "idle")
          => \A n \in CounterNames : CounterValue(n) = metrics.done[n]
\* a call that ended with an internal failure: a store error on persist, a
\* database error on delete
PersistFailure == [InitLoc EXCEPT !.op = "create", !.res = ErrRes("persist"),
                                  !.lastErr = "idx_urls_user_url_not_deleted"]
DeleteFailure == [InitLoc EXCEPT !.op = "delete", !.res = ErrRes("store")]

\* C17: at the request boundary a create refused by validation or by the
\* safety check, and a delete of a missing code, get a status different from
\* the status of an internal or store failure, and the answer to a failed
\* persist does not carry the store's error text.
C17_DistinctErrorOutcomes ==
    \A w \in Workers :
        /\ (/\ pc[w] = "done" /\ loc[w].op = "create"
            /\ loc[w].res.err \in {"validation", "unsafe"})
           => /\ HTTPCreateURL(loc[w]).status # HTTPCreateURL(PersistFailure).status
              /\ GRPCCreateURL(loc[w]).status # GRPCCreateURL(PersistFailure).status
        /\ (/\ pc[w] = "done" /\ loc[w].op = "delete"
            /\ loc[w].res.err = "notfound")
           => HTTPDeleteURL(loc[w]).status # HTTPDeleteURL(DeleteFailure).status
        /\ (/\ pc[w] = "done" /\ loc[w].op = "create"
            /\ loc[w].res.err = "persist")
           => /\ loc[w].lastErr \notin HTTPCreateURL(loc[w]).body
              /\ loc[w].lastErr \notin GRPCCreateURL(loc[w]).body
\* C18: one CreateURL call makes at most 5 persist attempts; an attempt after
\* the first is made only when the attempt before it failed with an error
\* classified as a short-code collision; and every attempt follows a code
\* generation of its own.
C18_BoundedRetries ==
    \A w \in Workers :
        loc[w].op = "create"
        => /\ loc[w].persists <= maxCreateAttempts
           /\ loc[w].persists <= loc[w].gens
           /\ pc[w] = "c_insert"
              => /\ loc[w].gens = loc[w].persists + 1
                 /\ loc[w].attempt = loc[w].persists + 1
                 /\ loc[w].persists > 0 => loc[w].lastErr = "urls_short_code_key"

C18_Witness ==
    \E w \in Workers :
        /\ loc[w].op = "create" /\ pc[w] = "c_fallback"
        /\ loc[w].persists = maxCreateAttempts /\ loc[w].gens = maxCreateAttempts
        /\ loc[w].lastErr = "urls_short_code_key"
\* C19: when a persist attempt of CreateURL fails with an error that is not
\* classified as a short-code collision, the call ends in that step with an
\* error; it has made no fallback read and no cache write, and it makes none
\* (and no further persist attempt) before it returns.
C19_PersistErrorAborts ==
    /\ [][\A w \in Workers :
            (/\ pc[w] = "c_insert"
             /\ loc'[w].persists = loc[w].persists + 1
             /\ loc'[w].created = 0
             /\ loc'[w].lastErr # "urls_short_code_key")
            => /\ pc'[w] = "done"
               /\ loc'[w].res = ErrRes("persist")
               /\ store' = store /\ ecache' = ecache /\ rcache' = rcache
               /\ events' = events]_vars
    /\ [](\A w \in Workers :
            (pc[w] = "done" /\ loc[w].res = ErrRes("persist"))
            => /\ loc[w].lookups = 1 /\ loc[w].cwrites = 0
               /\ loc[w].persists = loc[w].attempt
               /\ loc[w].lastErr # "urls_short_code_key")
    /\ [][\A w \in Workers :
            (pc[w] = "done" /\ loc[w].res = ErrRes("persist"))
            => pc'[w] \in {"done", "idle"}]_vars

C19_Witness ==
    \E w \in Workers :
        /\ pc[w] = "done" /\ loc[w].res = ErrRes("persist")
        /\ loc[w].lastErr = "idx_urls_user_url_not_deleted"
        /\ loc[w].persists >= 1 /\ loc[w].cwrites = 0
\* C20: when all 5 persist attempts of a CreateURL call have failed with a
\* short-code collision, the call makes the existing-entity lookup once more;
\* it goes on to return the response built from the entity the lookup finds,
\* or ends with the retries-exhausted error when the lookup finds none.
C20_FallbackAfterCollisions ==
    /\ [](\A w \in Workers :
            (/\ loc[w].op = "create"
             /\ loc[w].persists = maxCreateAttempts
             /\ loc[w].created = 0
             /\ loc[w].lastErr = "urls_short_code_key")
            => /\ pc[w] = "c_fallback" => loc[w].lookups = 1
               /\ pc[w] # "c_fallback"
                  => /\ loc[w].lookups = 2
                     /\ \/ loc[w].res = ErrRes("exhausted") /\ pc[w] = "done"
                        \/ /\ loc[w].res = OkRes(buildURLResponse(loc[w].ent))
                           /\ loc[w].ent.code # 0
                           /\ pc[w] \in {"c_rset", "done"})
    /\ [][\A w \in Workers :
            (pc[w] = "c_fallback" /\ pc'[w] # "c_fallback")
            => LET q == GetByOriginalURLAndUser(store, loc[w].url, loc[w].user, now)
               IN  /\ q.ent.code # 0
                      => loc'[w].res = OkRes(buildURLResponse(q.ent))
                   /\ q.ent.code = 0 => loc'[w].res = ErrRes("exhausted")
                   /\ store' = store /\ ecache' = ecache /\ rcache' = rcache]_vars

C20_Witness ==
    \E w \in Workers :
        /\ pc[w] = "done" /\ loc[w].op = "create"
        /\ loc[w].persists = maxCreateAttempts /\ loc[w].created = 0
        /\ loc[w].lookups = 2
        /\ loc[w].res.st = "ok" /\ loc[w].res.resp.code # loc[w].code
\* the codes the store's short-code lookup finds
FoundCodes == {c \in Codes : GetByShortCode(store, c, now).code # 0}

\* C21: the code handed to a persist attempt was not found by the store's
\* short-code lookup when it was probed; a found candidate is dropped and
\* another drawn, the tenth draw can still succeed and after ten found
\* candidates the call fails without a persist attempt.  The probe is only
\* advisory: no two rows of the store ever hold the same short code.
C21_ProbeAdvisory ==
    /\ [](\A i, j \in DOMAIN store : i # j => store[i].code # store[j].code)
    /\ [](/\ ProbeOutcomes(store, now, maxProbes) = {0}
          /\ ProbeOutcomes(store, now, maxProbes - 1)
               = (Codes \ FoundCodes) \cup (IF FoundCodes = {} THEN {} ELSE {0})
          /\ ProbeOutcomes(store, now, 0) = ProbeOutcomes(store, now, maxProbes - 1))
    /\ [][\A w \in Workers :
            (pc[w] = "c_gen" /\ pc'[w] # "c_gen")
            => \/ /\ pc'[w] = "c_insert"
                  /\ loc'[w].code \in Codes \ FoundCodes
                  /\ store' = store
               \/ /\ pc'[w] = "done"
                  /\ loc'[w].res = ErrRes("generate")
                  /\ FoundCodes # {}
                  /\ loc'[w].persists = loc[w].persists
                  /\ store' = store]_vars

C21_Witness ==
    \E w \in Workers :
        /\ loc[w].op = "create" /\ loc[w].lastErr = "urls_short_code_key"
        /\ loc[w].code \notin FoundCodes
        /\ \E i \in DOMAIN store :
             store[i].code = loc[w].code /\ ~Live(store[i], now)
\* C22: once the persist step of CreateURL has succeeded, the call returns the
\* response of the persisted entity whatever the outcome of the entity-cache
\* write and of the creation-event publication, and the row stays in the
\* store.
C22_BestEffortAfterPersist ==
    /\ [](\A w \in Workers :
            (loc[w].op = "create" /\ loc[w].created # 0)
            => /\ pc[w] \in {"c_cset", "c_rset", "done"}
               /\ \E i \in DOMAIN store :
                    /\ store[i].code = loc[w].created
                    /\ KeyOf(store[i]) = ReqKey(w)
               /\ pc[w] # "c_cset"
                  => /\ loc[w].res.st = "ok"
                     /\ loc[w].res.resp = buildURLResponse(loc[w].ent)
                     /\ loc[w].res.resp.code = loc[w].created
                     /\ loc[w].res.resp.url = loc[w].url)
    /\ [][\A w \in Workers :
            (pc[w] = "c_cset" /\ pc'[w] # "c_cset")
            => /\ pc'[w] = "c_rset"
               /\ store' = store
               /\ loc'[w].ent = loc[w].ent]_vars

C22_Witness ==
    \E w \in Workers :
        /\ CreateDone(w) /\ loc[w].created # 0
        /\ loc[w].elog > 0
        /\ events.dropped > 0 /\ events.created = 0
        /\ ecache[loc[w].created] = NoCached
        /\ loc[w].res = OkRes(buildURLResponse(loc[w].ent))
        /\ \E i \in DOMAIN store : store[i].code = loc[w].created
\* the response-cache entry that holds resp until time u
Holds(entry, resp, u) ==
    /\ entry.code = resp.code /\ entry.url = resp.url
    /\ entry.expires = resp.expires /\ entry.clicks = resp.clicks
    /\ entry.until = u

\* C23: a CreateURL that did not return from the response cache and succeeds,
\* with an entity newly created, found by the dedup lookup or found by the
\* fallback read, ends by writing the response it returns to the response
\* cache under the dedup key of (URL, owner) for the response TTL, unless
\* Redis refuses the write; an entry is readable only within its TTL, and a
\* request for a key that has an entry is answered with that entry.
C23_ResponseCached ==
    /\ [][\A w \in Workers :
            (/\ pc[w] # "done" /\ pc'[w] = "done"
             /\ loc'[w].op = "create" /\ loc'[w].res.st = "ok"
             /\ loc'[w].hit = NoResp)
            => /\ pc[w] = "c_rset"
               /\ loc'[w].res = loc[w].res
               /\ loc[w].created # 0 \/ loc[w].lookups \in {1, 2}
               /\ \/ /\ Holds(rcache'[ReqKey(w)], loc'[w].res.resp, now + responseTTL)
                     /\ \A k \in Keys \ {ReqKey(w)} : rcache'[k] = rcache[k]
                  \/ quota.faulty /\ rcache' = rcache]_vars
    /\ [](\A k \in Keys :
            rcache[k].code # 0
            => now < rcache[k].until /\ rcache[k].until <= now + responseTTL)
    /\ [][\A w \in Workers :
            (/\ pc[w] = "idle" /\ pc'[w] # "idle"
             /\ loc'[w].op = "create"
             /\ rcache[<<loc'[w].url, loc'[w].user>>].code # 0)
            => \/ /\ pc'[w] = "done"
                  /\ loc'[w].res =
                       OkRes(GetResponse(rcache, <<loc'[w].url, loc'[w].user>>))
               \/ quota.faulty /\ loc'[w].hit = NoResp]_vars

C23_Witness ==
    \E w, v \in Workers :
        /\ CreateDone(w) /\ loc[w].hit = NoResp /\ loc[w].res.st = "ok"
        /\ loc[w].lookups = 2
        /\ Holds(rcache[ReqKey(w)], loc[w].res.resp, now + responseTTL)
        /\ CreateDone(v) /\ ReqKey(v) = ReqKey(w)
        /\ loc[v].hit # NoResp /\ loc[v].res = OkRes(loc[w].res.resp)
\* what reading the store and applying the liveness predicate gives for code c
StoreAnswer(c) ==
    IF \E i \in DOMAIN store : store[i].code = c /\ Live(store[i], now)
    THEN LET i == CHOOSE j \in DOMAIN store : store[j].code = c /\ Live(store[j], now)
         IN  OkRes(buildURLResponse(EntOf(store[i])))
    ELSE NotFound

\* C24: GetURL never returns an error of the entity cache; a failed or missed
\* cache read is followed by the store read, and a GetURL whose cache calls
\* all failed returns what the store read and the liveness predicate give
\* (for the row as it was read) and leaves the entity cache as it was.
C24_CacheFailureFallsBack ==
    /\ [](\A w \in Workers :
            GetDone(w) => loc[w].res.st \in {"ok", "notfound"})
    /\ [][\A w \in Workers :
            (/\ pc[w] = "idle" /\ pc'[w] # "idle" /\ loc'[w].op = "get"
             /\ loc'[w].elog = 1 \/ Get(ecache, loc'[w].code).code = 0)
            => pc'[w] = "g_sget" /\ loc'[w].res = NoRes]_vars
    /\ [][\A w \in Workers :
            (pc[w] = "g_sget" /\ pc'[w] = "done")
            => loc'[w].res = NotFound /\ StoreAnswer(loc[w].code) = NotFound]_vars
    /\ [][\A w \in Workers :
            (/\ pc[w] = "g_cset" /\ pc'[w] = "done" /\ loc'[w].elog = 2
             /\ \E i \in DOMAIN store :
                  store[i].code = loc[w].code /\ EntOf(store[i]) = loc[w].ent)
            => /\ loc'[w].res = StoreAnswer(loc[w].code)
               /\ ecache' = ecache]_vars

C24_Witness ==
    \E w \in Workers :
        /\ GetDone(w) /\ loc[w].elog = 2
        /\ loc[w].res.st = "ok"
        /\ loc[w].res = StoreAnswer(loc[w].code)
        /\ ecache[loc[w].code] = NoCached
\* C25: a CreateURL(U, O) that starts when every entity of (O, U) in the store
\* has expired, and is not answered from the response cache, succeeds, and the short code it returns is the code of an
\* entity that has not expired, made by this call or by a concurrent one,
\* whether or not the detached SoftDelete of the expired row has run.
C25_CreateAfterExpiry ==
    \A w \in Workers :
        (CreateDone(w) /\ loc[w].lapsed /\ loc[w].hit = NoResp)
        => /\ loc[w].res.st = "ok"
           /\ \E i \in DOMAIN store :
                /\ store[i].code = loc[w].res.resp.code
                /\ KeyOf(store[i]) = ReqKey(w)
                /\ ~Expired(store[i], now)
\* C26: a redirect, through GetURLAndIncrementClick or RedirectURL, for a short
\* code that had no live entity when the call started (missing, inactive or
\* expired; a code whose DeleteURL is still under way is left aside) reports
\* not-found and starts no detached task.
C26_DeadRedirectInert ==
    /\ [](\A w \in Workers :
            (RedirectDone(w) /\ loc[w].goneAt) => loc[w].res = NotFound)
    /\ [][\A w \in Workers :
            (pc[w] # "rdone" /\ pc'[w] = "rdone" /\ loc'[w].goneAt)
            => tasks' = tasks]_vars
\* the publications attempted so far
Attempts(ev) == ev.created + ev.clicked + ev.dropped

\* C27: a redirect that serves an entity has its result while the detached
\* task it started has not taken a step, and can return at once; no later
\* step changes that result; a task always goes on from the click-count
\* increment to the publication, whether or not the increment changed a row,
\* and its last step attempts the publication and, in
\* GetURLAndIncrementClick, the cache refresh whatever the publication did.
C27_DetachedFailuresContained ==
    /\ [][\A w \in Workers :
            (pc[w] # "rdone" /\ pc'[w] = "rdone" /\ loc'[w].res.st = "ok")
            => /\ \E t \in BagToSet(tasks') :
                    /\ t.pc = "incr" /\ t.code = loc'[w].code
                    /\ tasks' = Spawn(tasks, t)
               /\ store' = store /\ events' = events]_vars
    /\ [](\A w \in Workers : RedirectDone(w) => ENABLED Return(w))
    /\ [][\A w \in Workers :
            (pc[w] = "rdone" /\ pc'[w] = "rdone") => loc'[w] = loc[w]]_vars
    /\ [][\A t \in BagToSet(tasks) :
            (t.kind \in {"click", "count"} /\ CopiesIn(t, tasks') < CopiesIn(t, tasks))
            => IF t.pc = "incr"
               THEN /\ tasks' = Spawn(Retire(tasks, t), [t EXCEPT !.pc = "cset"])
                    /\ store' \in {store, IncrementClickCount(store, t.code)}
               ELSE /\ tasks' = Retire(tasks, t)
                    /\ Attempts(events') = Attempts(events) + 1
                    /\ t.kind = "click"
                       => \/ ecache'[t.code].clicks = t.ent.clicks + 1
                          \/ quota.faulty /\ ecache' = ecache]_vars

C27_Witness ==
    \E w \in Workers, i \in DOMAIN store :
        /\ pc[w] = "rdone" /\ loc[w].op = "redirect" /\ ~loc[w].goneAt
        /\ loc[w].res.st = "ok" /\ loc[w].res.resp.url = store[i].url
        /\ store[i].code = loc[w].code /\ ~store[i].active /\ store[i].clicks = 0
        /\ tasks = EmptyBag
        /\ events.clicked = 0 /\ events.dropped = 1
        /\ ecache[loc[w].code].clicks = 1
\* C28: every detached click-recording goroutine of a redirect ends, also when
\* the store or the cache never answers, and no call of it returns because
\* the context of the inbound request was cancelled.
C28_DetachedTerminates ==
    /\ <>(fn.pc = "end")
    /\ [](fn.ctx.parent = "background")
\* C29: a DeleteURL(code) whose store update affected a row ends with success
\* after one cache.Delete: the entity-cache entry of the code is gone unless
\* Redis refused the delete, no other entry changes, and no step of the call
\* changes the response cache.
C29_DeleteEvictsEntityCache ==
    /\ [][\A w \in Workers :
            (pc[w] = "d_cdel" /\ pc'[w] # "d_cdel")
            => /\ pc'[w] = "ddone"
               /\ loc'[w].res = OkRes(NoResp)
               /\ \/ /\ ecache'[loc[w].code] = NoCached
                     /\ \A c \in Codes \ {loc[w].code} : ecache'[c] = ecache[c]
                  \/ quota.faulty /\ loc'[w].elog = 1 /\ ecache' = ecache
               /\ rcache' = rcache /\ store' = store]_vars
    /\ [][\A w \in Workers :
            (pc[w] = "idle" /\ pc'[w] # "idle" /\ loc'[w].op = "delete")
            => rcache' = rcache /\ ecache' = ecache]_vars
    /\ [](\A w \in Workers : pc[w] = "ddone" => loc[w].res = OkRes(NoResp))

C29_Witness ==
    \E w \in Workers, k \in Keys :
        /\ pc[w] = "ddone" /\ loc[w].res = OkRes(NoResp)
        /\ loc[w].elog = 1
        /\ ecache[loc[w].code].code = loc[w].code
        /\ rcache[k].code = loc[w].code
\* the rows of st keep their click counts in st2
SameClicks(st, st2) ==
    /\ DOMAIN st = DOMAIN st2
    /\ \A i \in DOMAIN st : st2[i].clicks = st[i].clicks

\* the entities Update can be given
UpdateArgs ==
    {[NoEnt EXCEPT !.code = c, !.user = o, !.expires = x, !.clicks = MaxRedirects] :
        c \in Codes, o \in Users, x \in {0, MaxTime}}

\* C30: the click count of a row never decreases; a step changes it only by
\* running IncrementClickCount for the row's short code in a detached task,
\* which adds exactly 1 to the active rows of that code; no row leaves the
\* store; and Delete, SoftDelete and Update, applied to any store reached,
\* leave every click count as it is, as does the INSERT of Create for the
\* rows already there.
C30_ClickCountMonotonic ==
    /\ [][/\ DOMAIN store \subseteq DOMAIN store'
          /\ \A i \in DOMAIN store :
               /\ store'[i].clicks >= store[i].clicks
               /\ store'[i].clicks # store[i].clicks
                  => /\ store'[i].clicks = store[i].clicks + 1
                     /\ store[i].active
                     /\ \A j \in DOMAIN store :
                          store'[j].clicks # store[j].clicks
                          <=> store[j].code = store[i].code /\ store[j].active
                     /\ \E t \in BagToSet(tasks) :
                          /\ t.pc = "incr" /\ t.code = store[i].code
                          /\ tasks' = Spawn(Retire(tasks, t), [t EXCEPT !.pc = "cset"])]_vars
    /\ [](\A c \in Codes :
            /\ SameClicks(store, Delete(store, c))
            /\ SameClicks(store, SoftDelete(store, c))
            /\ \A i \in DOMAIN store :
                 IncrementClickCount(store, c)[i].clicks =
                    store[i].clicks
                      + (IF store[i].code = c /\ store[i].active THEN 1 ELSE 0))
    /\ [](\A e \in UpdateArgs : SameClicks(store, Update(store, e)))
    /\ [](\A u \in URLs, o \in Users, c \in Codes :
            LET row == NewURL(u, o, <<>>, c, now)
            IN  /\ row.clicks = 0
                /\ \A i \in DOMAIN store : Append(store, row)[i] = store[i])

C30_Witness ==
    \E i \in DOMAIN store, t \in BagToSet(tasks) :
        /\ store[i].clicks = 1 /\ ~store[i].active
        /\ hDeleted[store[i].code]
        /\ t.pc = "cset" /\ t.code = store[i].code /\ t.ent.clicks = 1
\* the redirects for code c that have returned the original URL, to the
\* caller already or in the goroutine about to return
Served(c) ==
    hServed[c] + Cardinality({w \in Workers :
                    pc[w] = "rdone" /\ loc[w].code = c /\ loc[w].res.st = "ok"})

\* the detached tasks of code c that have not run their increment yet
PendingIncrements(c) ==
    LET P == {t \in BagToSet(tasks) :
                 t.kind \in {"click", "count"} /\ t.code = c /\ t.pc = "incr"}
    IN  IF P = {} THEN 0
        ELSE LET f[S \in SUBSET P] ==
                   IF S = {} THEN 0
                   ELSE LET t == CHOOSE x \in S : TRUE
                        IN  CopiesIn(t, tasks) + f[S \ {t}]
             IN  f[P]

\* C31: the click count the store holds for a short code, plus the
\* increments still to be run by detached tasks, never exceeds the number of
\* redirects for that code that returned the original URL: a served redirect
\* starts one task, a task runs one increment, and an increment that finds
\* no active row is lost, not made up for.
C31_ClicksNeverOvercount ==
    \A i \in DOMAIN store :
        store[i].clicks + PendingIncrements(store[i].code) <= Served(store[i].code)

C31_Witness ==
    \E i \in DOMAIN store :
        /\ store[i].clicks = 1 /\ hServed[store[i].code] = 2
        /\ tasks = EmptyBag /\ \A w \in Workers : pc[w] = "idle"
\* C32: a row keeps its short code, original URL and owner for ever and is
\* never removed from the store, whether it is deleted, soft-deleted or
\* expired, and no second row ever carries the short code of a row: a short
\* code once persisted is never assigned to another entity.
C32_CodesNeverReassigned ==
    /\ [][\A i \in DOMAIN store :
            /\ i \in DOMAIN store'
            /\ store'[i].code = store[i].code
            /\ KeyOf(store'[i]) = KeyOf(store[i])]_vars
    /\ [](\A i, j \in DOMAIN store :
            store[i].code = store[j].code => i = j)

C32_Witness ==
    \E w \in Workers, i \in DOMAIN store :
        /\ CreateDone(w) /\ loc[w].res.st = "ok"
        /\ loc[w].lastErr = "urls_short_code_key"
        /\ loc[w].created # 0 /\ loc[w].created # store[i].code
        /\ ~store[i].active
        /\ \E j \in DOMAIN store : store[j].code = loc[w].created
\* C33: an entity-cache entry under a short code is an entity of that code with
\* the original URL and owner of the store row of that code, and the URL that
\* GetURL or a redirect returns for a code is the URL of the store row of
\* that code.
C33_CacheAgreesOnIdentity ==
    /\ \A c \in Codes :
         ecache[c].code # 0
         => /\ ecache[c].code = c
            /\ \E i \in DOMAIN store :
                 /\ store[i].code = c
                 /\ store[i].url = ecache[c].url /\ store[i].user = ecache[c].user
    /\ \A w \in Workers :
         ((GetDone(w) \/ RedirectDone(w)) /\ loc[w].res.st = "ok")
         => /\ loc[w].res.resp.code = loc[w].code
            /\ \E i \in DOMAIN store :
                 store[i].code = loc[w].code /\ store[i].url = loc[w].res.resp.url

C33_Witness ==
    \E w, v \in Workers, i \in DOMAIN store :
        /\ GetDone(w) /\ loc[w].res.st = "ok"
        /\ pc[v] = "rdone" /\ loc[v].res.st = "ok" /\ loc[v].code = loc[w].code
        /\ store[i].code = loc[w].code
        /\ loc[w].res.resp.url = store[i].url /\ loc[v].res.resp.url = store[i].url
        /\ ecache[loc[w].code].url = store[i].url
        /\ ecache[loc[w].code].clicks # store[i].clicks
\* texts and owner ids whose key data could run into one another
KeyTexts ==
    {Raw(u) : u \in URLs \cup BadURLs}
    \cup {<<"a">>, <<"a", ":">>, <<"a", ":", "1">>, <<"a", ":", "1", ":">>,
          <<"a", ":", "1", ":", "2">>, <<"a", "1">>}
KeyOwners == {-1, 0, 1, 2, 11, 12, 21}

\* the text hashed for the key differs between any two (URL, owner) pairs
ResponseKeyDataInjective ==
    \A r1, r2 \in KeyTexts, o1, o2 \in KeyOwners :
        ResponseKeyData(r1, o1) = ResponseKeyData(r2, o2) => r1 = r2 /\ o1 = o2

\* C34: a successful CreateURL(U, O) returns a response whose original URL is
\* U, whose short code is the code of a row of U owned by O, and whose short
\* URL is the base URL, a slash and that code; a response-cache entry under
\* the key of (U, O) is such a response, a call answered from the cache is
\* answered from the entry of its own pair, and the text hashed for the key
\* differs between any two pairs.
C34_ResponseBelongsToRequest ==
    /\ \A w \in Workers :
         (CreateDone(w) /\ loc[w].res.st = "ok")
         => LET r == loc[w].res.resp
            IN  /\ r.url = loc[w].url
                /\ r.short = [base |-> baseURL, sep |-> "/", code |-> r.code]
                /\ \E i \in DOMAIN store :
                     /\ store[i].code = r.code
                     /\ store[i].user = loc[w].user /\ store[i].url = loc[w].url
                /\ loc[w].hit # NoResp => r = loc[w].hit
    /\ \A k \in Keys :
         rcache[k].code # 0
         => /\ rcache[k].url = k[1]
            /\ rcache[k].short = [base |-> baseURL, sep |-> "/", code |-> rcache[k].code]
            /\ \E i \in DOMAIN store :
                 store[i].code = rcache[k].code /\ KeyOf(store[i]) = k
    /\ ResponseKeyDataInjective

C34_Witness ==
    \E w, v \in Workers :
        /\ CreateDone(w) /\ CreateDone(v)
        /\ loc[w].res.st = "ok" /\ loc[v].res.st = "ok"
        /\ loc[w].url = loc[v].url /\ loc[w].user # loc[v].user
        /\ loc[w].res.resp.code # loc[v].res.resp.code
        /\ rcache[ReqKey(w)].code = loc[w].res.resp.code
        /\ rcache[ReqKey(v)].code = loc[v].res.resp.code
\* C35: a create request whose user_id is absent, zero or negative is refused
\* by the handler that receives it, HTTP or gRPC, and no entity is made of
\* it.
C35_OwnerRequired ==
    (fn.op = "request" /\ (fn.userId = <<>> \/ fn.userId[1] <= 0))
    => /\ fn.ent = NoEnt
       /\ fn.pc = "end"
          => IF fn.transport = "http" THEN fn.status = StatusBadRequest
             ELSE fn.status = "InvalidArgument"
\* C36: for every positive ExpiresIn the request can carry, the entity's
\* expires_at is set and lies strictly after the time of creation: the offset
\* ExpiresIn * time.Second added to time.Now() is positive, never zero or
\* negative.
C36_ExpiryStrictlyLater ==
    (fn.op = "expiry" /\ fn.pc = "done"
       /\ fn.expiresIn # <<>> /\ Positive64(fn.expiresIn[1]))
    => fn.set /\ Positive64(fn.offset)

\* C37: every write of the entity cache gives the entry the time to live of
\* its entity: 24 hours when expires_at is not set, the time remaining to
\* expires_at when that is in the future, and, when expires_at is already
\* past, a time to live with which the entry is not readable after the write.
C37_EntityCacheTTL ==
    [][\A c \in Codes :
         (ecache'[c] # ecache[c] /\ ecache'[c].code # 0)
         => LET en == ecache'[c]
            IN  /\ en.expires = 0 => en.until = now + defaultTTL
                /\ en.expires > now => en.until = en.expires
                /\ (en.expires # 0 /\ en.expires < now) => ~Unexpired(en, now')]_vars

\* The 62 symbols a code may be made of: the digits and the upper- and
\* lower-case letters.
Base62Alphabet ==
    {"0", "1", "2", "3", "4", "5", "6", "7", "8", "9"}
        \cup {"A", "B", "C", "D", "E", "F", "G", "H", "I", "J", "K", "L", "M", "N", "O", "P", "Q", "R", "S", "T", "U", "V", "W", "X", "Y", "Z"}
        \cup {"a", "b", "c", "d", "e", "f", "g", "h", "i", "j", "k", "l", "m", "n", "o", "p", "q", "r", "s", "t", "u", "v", "w", "x", "y", "z"}

\* C38: a Generate call of a Base62 generator built for length n that returns
\* no error returns exactly max(4, min(12, n)) characters, each one of the 62
\* symbols of the alphabet.
C38_Base62Length ==
    /\ Cardinality(Base62Alphabet) = 62
    /\ (fn.op = "base62" /\ fn.pc = "end" /\ ~fn.err)
       => /\ Len(fn.result) = Max({4, Min({12, fn.n})})
          /\ \A k \in DOMAIN fn.result : fn.result[k] \in Base62Alphabet

\* a generator asked for more than 12 has returned a code of 12 characters
C38_Witness ==
    /\ fn.op = "base62" /\ fn.pc = "end" /\ ~fn.err
    /\ fn.n > 12
    /\ Len(fn.result) = 12
    /\ fn.result[1] # fn.result[12]

\* C39: no call of Generate on one SnowflakeGenerator computes an id, that is
\* a pair of timestamp and sequence, that an earlier call has computed, also
\* after the sequence has wrapped and after the clock was set back.
C39_SnowflakeUnique ==
    fn.op = "snowflake" => ~fn.twice

====
